---- MODULE Spec2Model ----
(***************************************************************************)
(* Jottask: the tiered action pipeline (saas_email_processor.py), the      *)
(* approval click-through handlers (approval_routes.py), the mailbox       *)
(* poller with its processed-email ledger, and the reminder scheduler      *)
(* (saas_scheduler.py).                                                    *)
(*                                                                         *)
(* The Supabase store is modelled as a reliable table store: a select      *)
(* returns the rows that match and an insert/update takes effect, except   *)
(* for the unique-key conflict on processed_emails that the code handles.  *)
(* The mailbox, the outbound mail provider and the CRM connector are       *)
(* external and may fail; their outcomes are inputs of the actions.        *)
(***************************************************************************)
EXTENDS Integers, Sequences, FiniteSets, TLC

\* ------------------------------------------------------------------ bounds
MaxTokens == 1     \* PendingAction rows (tokens issued)
MaxCalls == 2      \* click-through calls
MaxActions == MaxTokens       \* actions in one classifier answer

MaxMail == 2       \* items in the mailbox's look-back window
MaxMsgIds == 1     \* distinct Message-ID header values
MaxCycles == 2     \* poll cycles of one connection that may be running
MaxTasks == 1      \* rows of the tasks table
MaxDays == 2       \* calendar days after day 0 that the scheduler runs through
MaxClassified == 2 \* actions handed to classify_action_tier
MaxConns == 2      \* rows of the email_connections table
MaxPollTime == 20  \* minutes the poller's clock runs through
MaxClientTasks == 2 \* tasks the matcher looks through
MaxNotes == 1      \* notes appended to the tasks in all
MaxUsers == 1      \* tenants of the daily summary
MaxSummaryTime == 1925 \* minutes (UTC) the summary clock runs through
MaxRuns == 1       \* runs of one item that a faltering iteration may add to
MaxSends == 2      \* calls of send_email on record
MaxAtoms == 3      \* pieces a sample subject is put together from
MaxClock == 8      \* days the approval clock runs through
MaxBacklog == 44   \* items of a mailbox with a backlog
MaxLoop == 2       \* tasks, and users, one scheduler tick loops over

Tokens == 1..MaxTokens
Calls == 1..MaxCalls
Cycles == 1..MaxCycles

VARIABLES
    pending_actions,   \* table pending_actions: token -> row
    taskNotes,         \* token -> number of Task/Note mutations made by its executor
    crmNotes,          \* token -> number of notes pushed to the tenant's CRM
    autoExecuted,      \* action types execute_action turned into a Task/Note mutation
    calls,             \* click-through calls: call id -> position and locals
    log,               \* token -> the finished calls on it, in order of completion
    approval_emails,   \* the approval emails the provider accepted: the tokens each carries
    mailbox,           \* the connection's inbox: uid -> item, in arrival order
    processed_emails,  \* table processed_emails (the Ledger) of the connection
    runs,              \* uid -> runs of the classify-and-execute step on the item
    cycles,            \* poll cycle -> position and locals of process_connection
    last_sync_at,      \* 0 (null) or the cycle that stamped the connection last
    now,               \* the wall clock, in minutes since 00:00 of day 0
    tasks,             \* table tasks: the rows, in order of creation
    sent,              \* per task, the reminder emails the provider accepted
    mail_up,           \* the mail provider accepted the sends of the last tick
    send_failed,       \* per task, whether an overdue reminder of it was refused
    classified,        \* the actions classify_action_tier was applied to, with results
    connections,       \* table email_connections: the rows, in order of creation
    poll_now,          \* the poller's clock at its last tick, in minutes
    selected,          \* the connections _get_active_connections returned at the last tick
    polled,            \* the connections process_connection was called for, in order
    poll_outcome,      \* per connection, how its last poll went
    legacy_pass,       \* the last tick ran the legacy single-inbox pass
    client_tasks,      \* table tasks as the matcher reads it: client_email, status, notes
    last_message,      \* the message processed last: the classifier's answer, its action
    users,             \* table users: the columns the daily summary reads
    digests,           \* per user, the instants (UTC minutes) a digest was mailed at
    summary_now,       \* the scheduler's clock at its last summary check, UTC minutes
    summary_selected,  \* the users get_users_needing_summary returned at that check
    send_calls,         \* the calls of send_email: environment, provider, what came back
    normalized,  \* the last call of _normalize_subject: its argument and its result
    page,        \* what the last call of /action/edit rendered
    matched,     \* the last call of find_matching_task: its arguments and its result
    clock,        \* the day of the approval pipeline's clock
    tick_run   \* one run of the scheduler's loop body: what it met and what it did

approvalVars ==
    <<pending_actions, taskNotes, crmNotes, autoExecuted, calls, log, approval_emails,
      page, clock>>

pollVars == <<mailbox, processed_emails, runs, cycles, last_sync_at>>

reminderVars == <<now, tasks, sent, mail_up, send_failed>>

tierVars == <<classified>>

tickVars == <<connections, poll_now, selected, polled, poll_outcome, legacy_pass>>

autoVars == <<client_tasks, last_message, matched>>

summaryVars == <<users, digests, summary_now, summary_selected>>

sendVars == <<send_calls>>

subjectVars == <<normalized>>

schedVars == <<tick_run>>

vars ==
    <<approvalVars, pollVars, reminderVars, tierVars,
      tickVars, autoVars, summaryVars, sendVars,
      subjectVars,
      schedVars>>

\* what the steps of one subsystem leave alone
outsideSubject ==
    <<approvalVars, pollVars, reminderVars, tierVars, tickVars, autoVars, summaryVars, sendVars, schedVars>>
outsideSched ==
    <<approvalVars, pollVars, reminderVars, tierVars, tickVars, autoVars, summaryVars, sendVars, subjectVars>>
outsideApproval ==
    <<pollVars, reminderVars, tierVars, tickVars, autoVars, summaryVars, sendVars, subjectVars, schedVars>>
outsideSend ==
    <<approvalVars, pollVars, reminderVars, tierVars, tickVars, autoVars, summaryVars, subjectVars, schedVars>>
outsideCalls == <<approval_emails, page, clock, outsideApproval>>
outsidePoll ==
    <<approvalVars, reminderVars, tierVars, tickVars, autoVars, summaryVars, sendVars, subjectVars, schedVars>>
outsideReminder ==
    <<approvalVars, pollVars, tierVars, tickVars, autoVars, summaryVars, sendVars, subjectVars, schedVars>>
outsideTier ==
    <<approvalVars, pollVars, reminderVars, tickVars, autoVars, summaryVars, sendVars, subjectVars, schedVars>>
outsideTick ==
    <<approvalVars, pollVars, reminderVars, tierVars, autoVars, summaryVars, sendVars, subjectVars, schedVars>>
outsideAuto ==
    <<approvalVars, pollVars, reminderVars, tierVars, tickVars, summaryVars, sendVars, subjectVars, schedVars>>
outsideSummary ==
    <<approvalVars, pollVars, reminderVars, tierVars, tickVars, autoVars, sendVars, subjectVars, schedVars>>

\* ------------------------------------------------------- tier classification
TIER_1_AUTO == "auto"
TIER_2_APPROVE == "approve"

approval_action_types ==
    {"update_crm", "send_email", "create_calendar_event", "change_deal_status",
     "delete_task"}

\* the list kept in __init__, which classify_action_tier does not consult
auto_action_types ==
    {"create_task", "set_callback", "set_reminder", "categorise_task",
     "snooze_task", "update_task_notes"}

\* faulty variant: the tier is read off the list kept in __init__
classify_action_tier_by_init_list(action_type) ==
    IF action_type \in approval_action_types THEN TIER_2_APPROVE
    ELSE IF action_type \in auto_action_types THEN TIER_1_AUTO
    ELSE TIER_2_APPROVE

classify_action_tier(action_type) ==
    IF action_type \in approval_action_types THEN TIER_2_APPROVE
    ELSE IF action_type \in {"create_task", "set_callback", "set_reminder",
                             "update_task_notes"} THEN TIER_1_AUTO
    ELSE TIER_2_APPROVE

\* execute_action: 1 when the action type ends in _create_task or add_note
\* (a Task insert or a Note append), 0 for "Unknown auto action type".
execute_action(action_type) ==
    IF action_type = "update_task_notes" THEN 1
    ELSE IF action_type \in {"create_task", "set_callback", "set_reminder"} THEN 1
    ELSE 0

\* ------------------------------------------------------------ pending_actions
Statuses == {"pending", "approved", "rejected", "failed", "expired"}
TerminalStatuses == Statuses \ {"pending"}

\* processed_at: 0 is null; a stamp is the arrival number of the call that wrote
\* it (calls are served at distinct instants). emailed: the approval email
\* carrying the token's links was accepted by the mail provider.
\* defect: "malformed" when the stored action is one _create_task raises on (no
\* 'title', or a due_date the store refuses) and its type is left to
\* _create_task by the dispatch of execute_approved_action.
NoRow ==
    [status |-> "none", processed_at |-> 0, action_type |-> "", emailed |-> FALSE,
     defect |-> "none", expires_at |-> 0]

\* expires_at is created_at + timedelta(days=7)
EXPIRY_DAYS == 7

\* action types the classifier is drawn from in the approval pipeline
EmailActionTypes ==
    {"create_task", "update_crm", "archive_thread"}

RECURSIVE SeqsUpTo(_, _)
SeqsUpTo(S, n) ==
    IF n = 0 THEN {<<>>}
    ELSE LET shorter == SeqsUpTo(S, n - 1)
         IN  shorter \cup {Append(s, x) : s \in {q \in shorter : Len(q) = n - 1}, x \in S}

Analyses == SeqsUpTo(EmailActionTypes, MaxActions)

SelectIdx(actions, tier) ==
    {i \in 1..Len(actions) : classify_action_tier(actions[i]) = tier}

StoredTokens == {t \in Tokens : pending_actions[t].status # "none"}

\* the tokens generated so far: those of the rows, and those mailed without a
\* row (an insert the store refused)
GeneratedTokens ==
    {t \in Tokens : pending_actions[t].status # "none" \/ pending_actions[t].emailed}

\* the i-th approval action of a message gets the i-th unused token
RankIn(S, i) == Cardinality({j \in S : j <= i})

\* the action types execute_approved_action has an executor of their own for
ExecutorTypes ==
    {"update_crm", "send_email", "create_calendar_event", "change_deal_status"}

\* A message may carry one action that is not well formed: at is its place among
\* the actions (0: none), kind says whether it has no 'title' or a due_date the
\* store refuses.
NoDefect == [at |-> 0, kind |-> "none"]

Defects == {NoDefect} \cup [at : 1..MaxActions, kind : {"untitled", "bad_date"}]

\* faulty variant: every extracted action is run through _create_task at once
process_single_email_body_eager(actions, sendOk, defect) ==
    /\ defect.at <= Len(actions)
    /\ autoExecuted' = autoExecuted \cup {actions[i] : i \in 1..Len(actions)}
    /\ UNCHANGED <<pending_actions, taskNotes, crmNotes, calls, log, approval_emails, page,
                   clock>>
    /\ UNCHANGED outsideApproval

\* process_single_email_body with execute_action, send_approval_email and
\* _store_pending_action: Tier 1 actions are executed (execute_action swallows
\* what _create_task raises on an action not well formed), Tier 2 actions are
\* stored pending under fresh tokens, one after the other, and mailed in one
\* approval email. send_approval_email raises on action['title'] right after it
\* has stored an untitled action: the actions after it are not stored and no
\* email is sent. refused: the places of the actions whose insert into
\* pending_actions raises; _store_pending_action prints the error and returns.
process_single_email_body_with(actions, sendOk, defect, refused) ==
    LET auto == SelectIdx(actions, TIER_1_AUTO)
        appr == SelectIdx(actions, TIER_2_APPROVE)
        base == Cardinality(GeneratedTokens)
        cut == IF defect.at \in appr /\ defect.kind = "untitled" THEN defect.at ELSE 0
        stored == IF cut = 0 THEN appr ELSE {i \in appr : i <= cut}
        sent_to_provider == cut = 0 /\ appr # {}
        mailed == sent_to_provider /\ sendOk
    IN  /\ defect.at <= Len(actions)
        /\ base + Cardinality(stored) <= MaxTokens
        /\ autoExecuted' =
               autoExecuted \cup {actions[i] : i \in {j \in auto : /\ execute_action(actions[j]) = 1
                                                                 /\ j # defect.at}}
        /\ pending_actions' =
               [t \in Tokens |->
                   IF \E i \in stored : t = base + RankIn(stored, i)
                   THEN LET i == CHOOSE i \in stored : t = base + RankIn(stored, i)
                        IN  IF i \in refused THEN [NoRow EXCEPT !.emailed = mailed]
                            ELSE [status |-> "pending", processed_at |-> 0,
                                  action_type |-> actions[i], emailed |-> mailed,
                                  defect |-> IF /\ i = defect.at
                                                /\ actions[i] \notin ExecutorTypes
                                             THEN "malformed" ELSE "none",
                                  expires_at |-> clock + EXPIRY_DAYS]
                   ELSE pending_actions[t]]
        /\ approval_emails' =
               IF mailed
               THEN Append(approval_emails, {base + RankIn(stored, i) : i \in stored})
               ELSE approval_emails
        /\ UNCHANGED <<taskNotes, crmNotes, calls, log, page, clock>>
        /\ UNCHANGED outsideApproval

\* process_single_email_body on a store that takes every insert
process_single_email_body(actions, sendOk, defect) ==
    process_single_email_body_with(actions, sendOk, defect, {})

\* ------------------------------------------------------ click-through calls
IdleCall ==
    [kind |-> "none", token |-> 0, pc |-> "idle", seen |-> "none",
     tn |-> 0, crm |-> 0, success |-> FALSE]

\* calls are numbered in the order they arrive
Arrives(c) ==
    /\ calls[c].pc = "idle"
    /\ IF c = 1 THEN TRUE ELSE calls[c - 1].pc # "idle"

\* a finished call keeps nothing but its place in the arrival order
DoneCall == [IdleCall EXCEPT !.pc = "done"]

NoCallInFlight == \A c \in Calls : calls[c].pc \in {"idle", "done"}

\* user ids: the user_context of the messages in this pipeline is that of one
\* tenant; NoUser is a task row without the user_id column
TenantOfPipeline == "A"
NoUser == "null"

\* the user_id of the task a click inserts: approval_routes.approve_action
\* builds its task rows without a user_id; execute_approved_action rebuilds the
\* user_context from the user_id of the pending row and hands it to _create_task
InsertedUserId(kind) ==
    IF kind = "approve_action" THEN NoUser ELSE TenantOfPipeline

\* owner: the user_id of the task written, when one was
LogEntry(kind, before, after, result, tn, crm) ==
    [kind |-> kind, before |-> before, after |-> after, result |-> result,
     tn |-> tn, crm |-> crm,
     owner |-> IF tn > 0 THEN InsertedUserId(kind) ELSE NoUser]

\* select('*').eq('token', token): any status
SelectByToken(t) == pending_actions[t].status # "none"

\* select('*').eq('token', token).eq('status', 'pending')
SelectPending(t) == pending_actions[t].status = "pending"

\* A call that finds no pending row ends at once with the handler's answer.
EndWithoutPending(c, t, kind, result) ==
    /\ calls' = [calls EXCEPT ![c] = DoneCall]
    /\ log' = [log EXCEPT ![t] =
                  Append(@, LogEntry(kind, pending_actions[t].status,
                                     pending_actions[t].status, result, 0, 0))]

BeginWithPending(c, t, kind, pc) ==
    /\ calls' = [calls EXCEPT ![c] =
                    [IdleCall EXCEPT !.kind = kind, !.token = t, !.pc = pc,
                                     !.seen = "pending"]]
    /\ UNCHANGED log

\* update({'status': s, 'processed_at': now}).eq('token', token), and the return
MarkProcessed(c, status, result) ==
    LET t == calls[c].token
    IN  /\ pending_actions' = [pending_actions EXCEPT ![t] =
                                  [@ EXCEPT !.status = status, !.processed_at = c]]
        /\ calls' = [calls EXCEPT ![c] = DoneCall]
        /\ log' = [log EXCEPT ![t] =
                      Append(@, LogEntry(calls[c].kind, calls[c].seen, status, result,
                                         calls[c].tn, calls[c].crm))]

\* approval_routes.approve_action, in its three store round trips
approve_action_select(c, t) ==
    /\ Arrives(c)
    /\ IF SelectPending(t)
       THEN BeginWithPending(c, t, "approve_action", "execute")
       ELSE EndWithoutPending(c, t, "approve_action",
                IF SelectByToken(t) THEN "already_processed" ELSE "not_found")
    /\ UNCHANGED <<pending_actions, taskNotes, crmNotes, autoExecuted>>
    /\ UNCHANGED outsideCalls

approve_action_execute(c) ==
    /\ calls[c].kind = "approve_action" /\ calls[c].pc = "execute"
    /\ taskNotes' = [taskNotes EXCEPT ![calls[c].token] = @ + 1]
    /\ calls' = [calls EXCEPT ![c].pc = "mark", ![c].tn = 1, ![c].success = TRUE]
    /\ UNCHANGED <<pending_actions, crmNotes, autoExecuted, log>>
    /\ UNCHANGED outsideCalls

approve_action_mark(c) ==
    /\ calls[c].kind = "approve_action" /\ calls[c].pc = "mark"
    /\ MarkProcessed(c, "approved", "approved")
    /\ UNCHANGED <<taskNotes, crmNotes, autoExecuted>>
    /\ UNCHANGED outsideCalls


\* The executor execute_approved_action dispatches to: _execute_crm_update pushes
\* a note to the CRM when the push succeeds and otherwise falls back to
\* _create_task; every other executor ends in _create_task (a Task insert, or a
\* Note on the counterpart's open task). Each returns success = True. The
\* executors of ExecutorTypes build the task row themselves; any other type
\* hands the stored action to _create_task, which raises without having written
\* anything when the action is not well formed (action['title'] is missing, or
\* the store refuses the insert for the due_date or due_time the action carries).
Executor(action_type, crm_success, well_formed) ==
    IF action_type = "update_crm" /\ crm_success
    THEN [tn |-> 0, crm |-> 1, success |-> TRUE, raised |-> FALSE]
    ELSE IF action_type \notin ExecutorTypes /\ ~well_formed
    THEN [tn |-> 0, crm |-> 0, success |-> FALSE, raised |-> TRUE]
    ELSE [tn |-> 1, crm |-> 0, success |-> TRUE, raised |-> FALSE]

\* AIEmailProcessor.execute_approved_action
execute_approved_action_select(c, t) ==
    /\ Arrives(c)
    /\ IF SelectPending(t)
       THEN BeginWithPending(c, t, "execute_approved_action", "execute")
       ELSE EndWithoutPending(c, t, "execute_approved_action",
                              "not_found_or_already_processed")
    /\ UNCHANGED <<pending_actions, taskNotes, crmNotes, autoExecuted>>
    /\ UNCHANGED outsideCalls

\* the executor has returned or raised: on a return the call goes on to mark
\* the row; a raise is caught by the handler's except, which answers
\* success = False and writes nothing
ExecutorReturns(c, out) ==
    IF out.raised
    THEN /\ calls' = [calls EXCEPT ![c] = DoneCall]
         /\ log' = [log EXCEPT ![calls[c].token] =
                       Append(@, LogEntry(calls[c].kind, calls[c].seen,
                                          pending_actions[calls[c].token].status,
                                          "raised", 0, 0))]
    ELSE /\ calls' = [calls EXCEPT ![c].pc = "mark", ![c].tn = out.tn,
                                   ![c].crm = out.crm, ![c].success = out.success]
         /\ UNCHANGED log

execute_approved_action_execute(c, crm_success) ==
    LET t == calls[c].token
        out == Executor(pending_actions[t].action_type, crm_success,
                        pending_actions[t].defect = "none")
    IN  /\ calls[c].kind = "execute_approved_action" /\ calls[c].pc = "execute"
        /\ taskNotes' = [taskNotes EXCEPT ![t] = @ + out.tn]
        /\ crmNotes' = [crmNotes EXCEPT ![t] = @ + out.crm]
        /\ ExecutorReturns(c, out)
        /\ UNCHANGED <<pending_actions, autoExecuted>>
        /\ UNCHANGED outsideCalls

execute_approved_action_mark(c) ==
    /\ calls[c].kind = "execute_approved_action" /\ calls[c].pc = "mark"
    /\ IF calls[c].success
       THEN MarkProcessed(c, "approved", "success")
       ELSE MarkProcessed(c, "failed", "failure")
    /\ UNCHANGED <<taskNotes, crmNotes, autoExecuted>>
    /\ UNCHANGED outsideCalls

\* approval_routes.reject_action
reject_action_select(c, t) ==
    /\ Arrives(c)
    /\ IF SelectPending(t)
       THEN BeginWithPending(c, t, "reject_action", "mark")
       ELSE EndWithoutPending(c, t, "reject_action",
                IF SelectByToken(t) THEN "already_processed" ELSE "not_found")
    /\ UNCHANGED <<pending_actions, taskNotes, crmNotes, autoExecuted>>
    /\ UNCHANGED outsideCalls

\* faulty variant: the rejection runs the action before it marks the row
reject_action_mark_executing(c) ==
    /\ calls[c].kind = "reject_action" /\ calls[c].pc = "mark"
    /\ MarkProcessed(c, "rejected", "skipped")
    /\ taskNotes' = [taskNotes EXCEPT ![calls[c].token] = @ + 1]
    /\ UNCHANGED <<crmNotes, autoExecuted>>
    /\ UNCHANGED outsideCalls

reject_action_mark(c) ==
    /\ calls[c].kind = "reject_action" /\ calls[c].pc = "mark"
    /\ MarkProcessed(c, "rejected", "skipped")
    /\ UNCHANGED <<taskNotes, crmNotes, autoExecuted>>
    /\ UNCHANGED outsideCalls

\* AIEmailProcessor.reject_action: one update keyed by the token alone; on a
\* token with no row the update matches nothing and the call still succeeds.
AIEmailProcessor_reject_action(c, t) ==
    /\ Arrives(c)
    /\ IF SelectByToken(t)
       THEN /\ pending_actions' = [pending_actions EXCEPT ![t] =
                                      [@ EXCEPT !.status = "rejected",
                                                !.processed_at = c]]
            /\ calls' = [calls EXCEPT ![c] = DoneCall]
            /\ log' = [log EXCEPT ![t] =
                          Append(@, LogEntry("AIEmailProcessor.reject_action",
                                             pending_actions[t].status, "rejected",
                                             "success", 0, 0))]
       ELSE /\ EndWithoutPending(c, t, "AIEmailProcessor.reject_action", "success")
            /\ UNCHANGED pending_actions
    /\ UNCHANGED <<taskNotes, crmNotes, autoExecuted>>
    /\ UNCHANGED outsideCalls

\* ------------------------------------------------- the approval pipeline
\* ------------------------------------------------------------ /action/edit
NoPage == [token |-> 0, code |-> 0, status |-> "none", buttons |-> FALSE]

\* faulty variant: the Approve and Skip buttons are rendered whatever the status
edit_action_buttons_always(t) ==
    /\ page' = IF pending_actions[t].status = "none"
               THEN [token |-> t, code |-> 404, status |-> "none", buttons |-> FALSE]
               ELSE [token |-> t, code |-> 200, status |-> pending_actions[t].status,
                     buttons |-> TRUE]
    /\ UNCHANGED <<pending_actions, taskNotes, crmNotes, autoExecuted, calls, log,
                   approval_emails, clock>>
    /\ UNCHANGED outsideApproval

\* edit_action: one select by token; 'Action not found' (404) without a row,
\* else the stored action and its status, with the Approve and Skip links when
\* the status read is 'pending'
edit_action(t) ==
    /\ page' = IF pending_actions[t].status = "none"
               THEN [token |-> t, code |-> 404, status |-> "none", buttons |-> FALSE]
               ELSE [token |-> t, code |-> 200, status |-> pending_actions[t].status,
                     buttons |-> pending_actions[t].status = "pending"]
    /\ UNCHANGED <<pending_actions, taskNotes, crmNotes, autoExecuted, calls, log,
                   approval_emails, clock>>
    /\ UNCHANGED outsideApproval

ApprovalInit ==
    /\ pending_actions = [t \in Tokens |-> NoRow]
    /\ taskNotes = [t \in Tokens |-> 0]
    /\ crmNotes = [t \in Tokens |-> 0]
    /\ autoExecuted = {}
    /\ calls = [c \in Calls |-> IdleCall]
    /\ log = [t \in Tokens |-> <<>>]
    /\ approval_emails = <<>>
    /\ page = NoPage
    /\ clock = 0

\* a message all of whose extracted actions are well formed
Ingest ==
    \E actions \in Analyses, sendOk \in BOOLEAN :
        process_single_email_body(actions, sendOk, NoDefect)

\* a message with an action that is not well formed
IngestMalformed ==
    \E actions \in Analyses, sendOk \in BOOLEAN, defect \in Defects \ {NoDefect} :
        process_single_email_body(actions, sendOk, defect)

CallArrives ==
    \E c \in Calls, t \in Tokens :
        \/ approve_action_select(c, t)
        \/ execute_approved_action_select(c, t)
        \/ reject_action_select(c, t)
        \/ AIEmailProcessor_reject_action(c, t)

CallProceeds ==
    \E c \in Calls :
        \/ approve_action_execute(c)
        \/ approve_action_mark(c)
        \/ \E crm_success \in BOOLEAN : execute_approved_action_execute(c, crm_success)
        \/ execute_approved_action_mark(c)
        \/ reject_action_mark(c)

\* requests served concurrently (the web workers interleave at the store), on
\* the actions of well-formed messages
ApprovalNext == Ingest \/ CallArrives \/ CallProceeds

\* requests served one after another, on the actions of any message
SequentialNext ==
    Ingest \/ IngestMalformed \/ (NoCallInFlight /\ CallArrives) \/ CallProceeds

\* a message one of whose approval actions the store refuses to insert
IngestStoreFails ==
    \E actions \in Analyses, sendOk \in BOOLEAN, at \in 1..MaxActions :
        /\ at \in SelectIdx(actions, TIER_2_APPROVE)
        /\ process_single_email_body_with(actions, sendOk, NoDefect, {at})

\* requests served one after another, with a store that may refuse an insert
StoreFaultsNext == SequentialNext \/ IngestStoreFails

\* a day passes
DayPasses ==
    /\ clock < MaxClock
    /\ clock' = clock + 1
    /\ UNCHANGED <<pending_actions, taskNotes, crmNotes, autoExecuted, calls, log,
                   approval_emails, page>>
    /\ UNCHANGED outsideApproval

\* requests served one after another, over the days
ExpiryNext == SequentialNext \/ DayPasses

EditArrives == \E t \in Tokens : edit_action(t)

\* the three links of the approval email, followed one request after another
EditNext ==
    \/ Ingest
    \/ NoCallInFlight /\ (CallArrives \/ EditArrives)
    \/ CallProceeds

\* --------------------------------------------------- mailbox poller, Ledger
BATCH_SIZE == 20

\* identifiers as the Ledger holds them: a uid string, a Message-ID header
\* value, or the synthetic 'fetch-fail-<uid>'
UidStr(n) == <<"uid", n>>
MessageIdHeader(m) == <<"Message-ID", m>>
FetchFailId(n) == <<"fetch-fail", n>>

\* A subject is the sequence of its characters. str.lower on one character
Lower(c) ==
    CASE c = "R" -> "r"
      [] c = "A" -> "a"
      [] c = "E" -> "e"
      [] c = "F" -> "f"
      [] c = "W" -> "w"
      [] c = "D" -> "d"
      [] c = "Q" -> "q"
      [] OTHER -> c

LowerAll(s) == [i \in 1..Len(s) |-> Lower(s[i])]

Drop(s, n) == SubSeq(s, n + 1, Len(s))

\* \s* at the start of s, consumed
RECURSIVE LStrip(_)
LStrip(s) == IF s # <<>> /\ Head(s) = " " THEN LStrip(Tail(s)) ELSE s

RECURSIVE RStrip(_)
RStrip(s) == IF s # <<>> /\ s[Len(s)] = " " THEN RStrip(SubSeq(s, 1, Len(s) - 1)) ELSE s

\* str.strip
Strip(s) == RStrip(LStrip(s))

\* the alternatives of the group (re|fwd|fw), in the order the regex tries them
ReplyPrefixes == << <<"r", "e">>, <<"f", "w", "d">>, <<"f", "w">> >>

\* s starts with the word w in any letter case (re.IGNORECASE)
StartsWith(s, w) ==
    Len(s) >= Len(w) /\ \A i \in 1..Len(w) : Lower(s[i]) = w[i]

\* the alternative matches at the start of s and is followed by \s*:
MatchesAt(s, w) ==
    /\ StartsWith(s, w)
    /\ LET rest == LStrip(Drop(s, Len(w))) IN rest # <<>> /\ Head(rest) = ":"

\* re.sub(r'^(re|fwd|fw)\s*:\s*', '', s, flags=re.IGNORECASE): the match at
\* the start of s, if any, is removed
ReSub(s) ==
    IF \E k \in 1..Len(ReplyPrefixes) : MatchesAt(s, ReplyPrefixes[k])
    THEN LET k == CHOOSE k \in 1..Len(ReplyPrefixes) :
                      /\ MatchesAt(s, ReplyPrefixes[k])
                      /\ \A j \in 1..(k - 1) : ~MatchesAt(s, ReplyPrefixes[j])
             w == ReplyPrefixes[k]
         IN  LStrip(Tail(LStrip(Drop(s, Len(w)))))
    ELSE s

\* the while loop: substitute and strip until nothing changes
RECURSIVE Cleaned(_)
Cleaned(s) ==
    LET new == Strip(ReSub(s)) IN IF new = s THEN s ELSE Cleaned(new)

\* faulty variant: the prefix is removed once, not repeatedly
_normalize_subject_once(subject) ==
    IF subject = <<>> THEN <<>>
    ELSE LowerAll(Strip(ReSub(Strip(subject))))

\* _normalize_subject: '' for an empty subject, else the stripped subject
\* without its leading Re:/Fwd:/Fw: prefixes, lower-cased
_normalize_subject(subject) ==
    IF subject = <<>> THEN <<>>
    ELSE LowerAll(Cleaned(Strip(subject)))

\* message_id 0: the item has no Message-ID header. has_subject FALSE: it has no
\* Subject header (a Subject header may still be empty). The subjects are '',
\* 'Q' and 'Re: q'.
MailSubjects == {<<>>, <<"Q">>, <<"R", "e", ":", " ", "q">>}

\* a Subject header whose encoded word names a charset Python does not know:
\* part.decode(enc) raises LookupError
Undecodable == <<"=?x-unknown?B?UXVvdGU=?=">>

MailItems ==
    {[message_id |-> m, has_subject |-> h, subject |-> s] :
        m \in 0..MaxMsgIds, h \in BOOLEAN, s \in MailSubjects \cup {Undecodable}} \
    {i \in [message_id : 0..MaxMsgIds, has_subject : {FALSE},
            subject : MailSubjects \cup {Undecodable}] :
        i.subject # <<>>}

\* a copy of a message carries the headers of the message
Delivers(item) ==
    /\ Len(mailbox) < MaxMail
    /\ \A u \in 1..Len(mailbox) :
           (item.message_id # 0 /\ mailbox[u].message_id = item.message_id)
               => mailbox[u] = item
    /\ mailbox' = Append(mailbox, item)
    /\ runs' = [u \in 1..(Len(mailbox) + 1) |-> IF u <= Len(mailbox) THEN runs[u] ELSE 0]
    /\ UNCHANGED <<processed_emails, cycles, last_sync_at>>
    /\ UNCHANGED outsidePoll

\* _load_processed_emails(connection_id): every email_id and uid of the rows
_load_processed_emails ==
    {r.email_id : r \in processed_emails} \cup {r.uid : r \in processed_emails}

\* faulty variant: the insert is not refused on a known (connection_id, email_id)
_mark_email_processed_no_conflict(message_id, uid_str) ==
    processed_emails \cup {[email_id |-> message_id, uid |-> uid_str]}

\* _mark_email_processed: the insert, which the store refuses (duplicate key,
\* swallowed by the handler) when the connection already has the email_id
_mark_email_processed(message_id, uid_str) ==
    IF \E r \in processed_emails : r.email_id = message_id
    THEN processed_emails
    ELSE processed_emails \cup {[email_id |-> message_id, uid |-> uid_str]}

\* handled: the candidates the run has taken from its list; passed: those it
\* gave to process_single_email_body; dupes: those it skipped as duplicate
\* subjects (all three kept after the run for the record of what it did)
IdleCycle ==
    [pc |-> "idle", processed |-> {}, todo |-> <<>>, seen_subjects |-> {},
     handled |-> {}, passed |-> {}, dupes |-> {}]

RECURSIVE Reversed(_)
Reversed(q) == IF q = <<>> THEN <<>> ELSE Append(Reversed(Tail(q)), Head(q))

\* faulty variant: the slice [:n], the oldest candidates
FirstN(q, n) == IF Len(q) <= n THEN q ELSE SubSeq(q, 1, n)

\* the slice [-n:]
LastN(q, n) == IF Len(q) <= n THEN q ELSE SubSeq(q, Len(q) - n + 1, Len(q))

RECURSIVE Unprocessed(_, _)
Unprocessed(uids, processed) ==
    IF uids = <<>> THEN <<>>
    ELSE IF UidStr(Head(uids)) \in processed THEN Unprocessed(Tail(uids), processed)
    ELSE <<Head(uids)>> \o Unprocessed(Tail(uids), processed)

\* process_connection up to the loop: the password check, the Ledger load, the
\* IMAP login and search, and the candidate list (with the early returns)
process_connection_begin(k, has_password, mailbox_ok) ==
    LET processed == _load_processed_emails
        email_ids == [u \in 1..Len(mailbox) |-> u]
        unprocessed == Unprocessed(email_ids, processed)
    IN  /\ cycles[k].pc = "idle"
        /\ IF ~has_password
           THEN /\ cycles' = [cycles EXCEPT ![k] = IdleCycle]
                /\ UNCHANGED last_sync_at
           ELSE IF ~mailbox_ok \/ email_ids = <<>> \/ unprocessed = <<>>
           THEN /\ last_sync_at' = k
                /\ cycles' = [cycles EXCEPT ![k] = IdleCycle]
           ELSE /\ cycles' = [cycles EXCEPT ![k] =
                                 [pc |-> "loop", processed |-> processed,
                                  todo |-> Reversed(LastN(unprocessed, BATCH_SIZE)),
                                  seen_subjects |-> {}, handled |-> {},
                                  passed |-> {}, dupes |-> {}]]
                /\ UNCHANGED last_sync_at
        /\ UNCHANGED <<mailbox, processed_emails, runs>>
        /\ UNCHANGED outsidePoll

\* what becomes of the insert into processed_emails: done, refused by the store
\* for a reason other than a duplicate key (the handler prints and goes on), or
\* never reached because the worker process is stopped before it
LedgerOutcomes == {"inserted", "failed", "stopped"}

\* the record of a run that has ended
Ended(cycle, uid) ==
    [IdleCycle EXCEPT !.handled = cycle.handled \cup {uid},
                      !.passed = cycle.passed,
                      !.dupes = cycle.dupes]

\* one iteration of the loop over the candidates. An exception of the iteration
\* (the Subject header cannot be decoded) leaves the loop for the handler of
\* process_connection, which ends the run and stamps last_sync_at.
process_connection_item(k, fetch_ok, ledger) ==
    LET uid == Head(cycles[k].todo)
        item == mailbox[uid]
        msg_id_str == UidStr(uid)
        message_id == IF item.message_id = 0 THEN msg_id_str
                      ELSE MessageIdHeader(item.message_id)
        skipped == msg_id_str \in cycles[k].processed \/ message_id \in cycles[k].processed
        raises == fetch_ok /\ ~skipped /\ item.subject = Undecodable
        norm_subject == _normalize_subject(item.subject)
        duplicate == norm_subject # <<>> /\ norm_subject \in cycles[k].seen_subjects
        rest == [cycles EXCEPT ![k].todo = Tail(@), ![k].handled = @ \cup {uid}]
        insert(email_id) ==
            IF ledger = "inserted" THEN _mark_email_processed(email_id, msg_id_str)
            ELSE processed_emails
        stops(c) == IF ledger = "stopped" THEN [c EXCEPT ![k] = Ended(cycles[k], uid)] ELSE c
    IN  /\ cycles[k].pc = "loop" /\ cycles[k].todo # <<>>
        /\ IF ~fetch_ok
           THEN /\ processed_emails' = insert(FetchFailId(uid))
                /\ cycles' = stops(rest)
                /\ UNCHANGED runs
           ELSE IF skipped
           THEN /\ ledger = "inserted"
                /\ cycles' = rest
                /\ UNCHANGED <<processed_emails, runs>>
           ELSE IF raises
           THEN /\ ledger = "inserted"
                /\ cycles' = [cycles EXCEPT ![k] = Ended(cycles[k], uid)]
                /\ UNCHANGED <<processed_emails, runs>>
           ELSE IF duplicate
           THEN /\ processed_emails' = insert(message_id)
                /\ cycles' = stops([rest EXCEPT ![k].dupes = @ \cup {uid}])
                /\ UNCHANGED runs
           ELSE /\ cycles' = stops([rest EXCEPT ![k].seen_subjects =
                                 IF norm_subject # <<>> THEN @ \cup {norm_subject} ELSE @,
                                         ![k].passed = @ \cup {uid}])
                \* process_single_email_body raises before classifying when the
                \* Subject header is missing
                /\ runs' = [runs EXCEPT ![uid] = IF item.has_subject THEN @ + 1 ELSE @]
                /\ processed_emails' = insert(message_id)
        /\ last_sync_at' = IF raises THEN k ELSE last_sync_at
        /\ UNCHANGED mailbox
        /\ UNCHANGED outsidePoll

\* after the loop: logout and _update_last_sync
process_connection_end(k) ==
    /\ cycles[k].pc = "loop" /\ cycles[k].todo = <<>>
    /\ cycles' = [cycles EXCEPT ![k] = [IdleCycle EXCEPT !.handled = cycles[k].handled,
                                                       !.passed = cycles[k].passed,
                                                       !.dupes = cycles[k].dupes]]
    /\ last_sync_at' = k
    /\ UNCHANGED <<mailbox, processed_emails, runs>>
    /\ UNCHANGED outsidePoll

PollInit ==
    /\ mailbox = <<>>
    /\ processed_emails = {}
    /\ runs = <<>>
    /\ cycles = [k \in Cycles |-> IdleCycle]
    /\ last_sync_at = 0

NoCycleRunning == \A k \in Cycles : cycles[k].pc = "idle"

MailArrives == \E item \in MailItems : Delivers(item)

CycleBegins ==
    \E k \in Cycles, has_password \in BOOLEAN, mailbox_ok \in BOOLEAN :
        process_connection_begin(k, has_password, mailbox_ok)

CycleProceeds ==
    \E k \in Cycles :
        \/ \E fetch_ok \in BOOLEAN : process_connection_item(k, fetch_ok, "inserted")
        \/ process_connection_end(k)

\* an iteration whose Ledger insert is refused, or before whose Ledger insert
\* the worker is stopped
CycleFalters ==
    \E k \in Cycles, fetch_ok \in BOOLEAN, ledger \in LedgerOutcomes \ {"inserted"} :
        /\ cycles[k].todo # <<>>
        /\ runs[Head(cycles[k].todo)] < MaxRuns
        /\ process_connection_item(k, fetch_ok, ledger)

\* a cycle of a connection with a password whose mailbox answers
CycleBeginsWell ==
    NoCycleRunning /\ \E k \in Cycles : process_connection_begin(k, TRUE, TRUE)

\* a backlog: n messages at once, each with an empty Subject header and no
\* Message-ID header, in a mailbox that may hold more than one batch
BacklogSizes == {BATCH_SIZE + 1, BATCH_SIZE + 2}

BacklogItem == [message_id |-> 0, has_subject |-> TRUE, subject |-> <<>>]

BacklogArrives ==
    \E n \in BacklogSizes :
        /\ Len(mailbox) + n <= MaxBacklog
        /\ mailbox' = mailbox \o [i \in 1..n |-> BacklogItem]
        /\ runs' = [u \in 1..(Len(mailbox) + n) |-> IF u <= Len(mailbox) THEN runs[u] ELSE 0]
        /\ UNCHANGED <<processed_emails, cycles, last_sync_at>>
        /\ UNCHANGED outsidePoll

\* the loop of a cycle whose fetches all answer OK
CycleProceedsWell ==
    \E k \in Cycles :
        \/ process_connection_item(k, TRUE, "inserted")
        \/ process_connection_end(k)

\* the poller's loop on a mailbox with a backlog
BacklogNext == BacklogArrives \/ CycleBeginsWell \/ CycleProceedsWell

\* the poller's own loop: one cycle of the connection at a time
PollNext == MailArrives \/ (NoCycleRunning /\ CycleBegins) \/ CycleProceeds

\* two pollers (a slow tick and a fresh one) on the same connection
PollOverlapNext == MailArrives \/ CycleBegins \/ CycleProceeds

\* the poller's loop with a store that may refuse an insert and a worker that
\* may be stopped
PollFaultsNext == PollNext \/ CycleFalters

\* --------------------------------------------------- reminder scheduler
UPCOMING_WINDOW == 30
CATCHUP_CEILING == 1440

MinutesPerDay == 24 * 60

\* reminder_sent_at: <<>> is null, <<n>> a stamp taken at minute n
NoStamp == <<>>

\* due_time of a task that has none (the column is null)
NoDueTime == 0 - 1

\* now.date() in the owner's timezone
DateOf(n) == n \div MinutesPerDay

\* due_date == today_str or due_date == yesterday_str
InDateWindow(task, n) ==
    \/ task.due_date = DateOf(n)
    \/ task.due_date = DateOf(n) - 1

\* task_due: now (or now - 1 day) with the clock fields replaced by due_time
task_due(task, n) ==
    IF task.due_date = DateOf(n)
    THEN DateOf(n) * MinutesPerDay + task.due_time
    ELSE (DateOf(n) - 1) * MinutesPerDay + task.due_time

\* (task_due - now).total_seconds() / 60
time_diff(task, n) == task_due(task, n) - n

\* faulty variant: the stamp is not consulted
AlreadySentIgnored(task, n) == FALSE

\* reminder_sent_at is set and sent_at_local.date() >= task_due.date()
AlreadySent(task, n) ==
    /\ task.reminder_sent_at # NoStamp
    /\ DateOf(task.reminder_sent_at[1]) >= DateOf(task_due(task, n))

\* faulty variant: the catch-up branch has no ceiling
should_send_no_ceiling(diff) == diff <= UPCOMING_WINDOW

\* faulty variant: only the upcoming branch sends
should_send_upcoming_only(diff) == 0 <= diff /\ diff <= UPCOMING_WINDOW

should_send(diff) ==
    \/ 0 <= diff /\ diff <= UPCOMING_WINDOW
    \/ diff < 0 /\ diff >= 0 - CATCHUP_CEILING

is_overdue(diff) == diff < 0

Variant(diff) == IF is_overdue(diff) THEN "overdue" ELSE "normal"

\* faulty variant: the query does not filter on the status
FiresWhateverStatus(task, n) ==
    /\ task.due_time # NoDueTime
    /\ InDateWindow(task, n)
    /\ ~AlreadySent(task, n)
    /\ should_send(time_diff(task, n))

\* the task passes the query (pending), the filter on due_time and every skip
\* of the loop
Fires(task, n) ==
    /\ task.status = "pending"
    /\ task.due_time # NoDueTime
    /\ InDateWindow(task, n)
    /\ ~AlreadySent(task, n)
    /\ should_send(time_diff(task, n))

\* faulty variant: the task is stamped whether or not the send succeeded
check_and_send_reminders_stamping_always(n, up) ==
    /\ now' = n
    /\ mail_up' = up
    /\ tasks' = [t \in DOMAIN tasks |->
                    IF Fires(tasks[t], n)
                    THEN [tasks[t] EXCEPT !.reminder_sent_at = <<n>>]
                    ELSE tasks[t]]
    /\ sent' = [t \in DOMAIN tasks |->
                    IF Fires(tasks[t], n) /\ up
                    THEN Append(sent[t],
                                [at |-> n, variant |-> Variant(time_diff(tasks[t], n))])
                    ELSE sent[t]]
    /\ UNCHANGED send_failed
    /\ UNCHANGED outsideReminder

\* One scheduler tick at minute n. send_email succeeds for the tasks of this
\* tick iff up; after a refused send the loop continues without stamping.
check_and_send_reminders(n, up) ==
    /\ now' = n
    /\ mail_up' = up
    /\ tasks' = [t \in DOMAIN tasks |->
                    IF Fires(tasks[t], n) /\ up
                    THEN [tasks[t] EXCEPT !.reminder_sent_at = <<n>>]
                    ELSE tasks[t]]
    /\ sent' = [t \in DOMAIN tasks |->
                    IF Fires(tasks[t], n) /\ up
                    THEN Append(sent[t],
                                [at |-> n, variant |-> Variant(time_diff(tasks[t], n))])
                    ELSE sent[t]]
    /\ send_failed' = [t \in DOMAIN tasks |->
                    \/ send_failed[t]
                    \/ Fires(tasks[t], n) /\ ~up /\ is_overdue(time_diff(tasks[t], n))]
    /\ UNCHANGED outsideReminder

\* _create_task's insert: a pending task with the due date and time of the action
insert_task(due_date, due_time) ==
    /\ Len(tasks) < MaxTasks
    /\ tasks' = Append(tasks, [status |-> "pending", due_date |-> due_date,
                               due_time |-> due_time, reminder_sent_at |-> NoStamp])
    /\ sent' = Append(sent, <<>>)
    /\ send_failed' = Append(send_failed, FALSE)
    /\ UNCHANGED <<now, mail_up>>
    /\ UNCHANGED outsideReminder

\* app.handle_complete: the owner marks the task done
handle_complete(t) ==
    /\ tasks[t].status = "pending"
    /\ tasks' = [tasks EXCEPT ![t].status = "completed"]
    /\ UNCHANGED <<now, sent, mail_up, send_failed>>
    /\ UNCHANGED outsideReminder

\* quick_delay: '1hour' and '1day', in minutes
QuickDelays == {60, MinutesPerDay}

\* app.handle_reschedule_submit at the instant of the clock: due_date and
\* due_time become those of now + delay and the status pending; no other column
\* is written
handle_reschedule_submit(t, delay) ==
    /\ DateOf(now + delay) <= MaxDays
    /\ tasks' = [tasks EXCEPT ![t].due_date = DateOf(now + delay),
                              ![t].due_time = (now + delay) % MinutesPerDay,
                              ![t].status = "pending"]
    /\ UNCHANGED <<now, sent, mail_up, send_failed>>
    /\ UNCHANGED outsideReminder

\* due times of day the tasks are drawn from: 00:10, 09:00, 23:50
DueTimes == {10, 9 * 60, 23 * 60 + 50}
DueDates == {1}

\* minutes around a due instant at which a tick may happen to run
TickOffsets == {0 - 31, 0 - 30, 0 - 5, 0 - 2, 0, 10, 12,
                CATCHUP_CEILING, CATCHUP_CEILING + 1}

\* The instants ticks are taken at. A tick may follow the previous one after any
\* gap (the loop sleeps 60 s, a tick may be slow, the process may be restarted).
Instants ==
    {n \in 1..((MaxDays + 1) * MinutesPerDay - 1) :
        \/ n % MinutesPerDay \in {0, MinutesPerDay - 1}
        \/ \E d \in DueDates, h \in DueTimes :
              n - (d * MinutesPerDay + h) \in TickOffsets}

ReminderInit ==
    /\ now = 0
    /\ tasks = <<>>
    /\ sent = <<>>
    /\ mail_up = TRUE
    /\ send_failed = <<>>

Tick == \E n \in Instants, up \in BOOLEAN : n > now /\ check_and_send_reminders(n, up)

TaskCreated == \E d \in DueDates, h \in DueTimes \cup {NoDueTime} : insert_task(d, h)

Completes == \E t \in DOMAIN tasks : handle_complete(t)

\* run_scheduler: tick after tick, while tasks are created and completed
ReminderNext == Tick \/ TaskCreated \/ Completes

Reschedules ==
    \E t \in DOMAIN tasks, delay \in QuickDelays : handle_reschedule_submit(t, delay)

\* the scheduler, while tasks are created, completed and rescheduled
RescheduleNext == ReminderNext \/ Reschedules

\* ------------------------------------------ classify_action_tier on its own
\* action types an action dict may carry, known to the tier lists or not
TierActionTypes ==
    approval_action_types \cup auto_action_types
        \cup {"update_task_notes", "", "archive_thread", "Create_Task"}

\* an action dict: the action_type key may be missing
ActionDicts ==
    [has_action_type : BOOLEAN, action_type : TierActionTypes, title : {"a", "b"}]

\* action.get('action_type', '')
ActionTypeOf(action) == IF action.has_action_type THEN action.action_type ELSE ""

TierInit == classified = <<>>

Classifies(action) ==
    /\ Len(classified) < MaxClassified
    /\ classified' = Append(classified,
            [action |-> action, tier |-> classify_action_tier(ActionTypeOf(action))])
    /\ UNCHANGED outsideTier

TierNext == \E action \in ActionDicts : Classifies(action)

\* ------------------------------------------- the poller's tick over connections
DEFAULT_SYNC_FREQUENCY == 15

\* conn.get('sync_frequency_minutes', 15); <<>> is a row without the key
freq_minutes(conn) ==
    IF conn.sync_frequency_minutes = <<>> THEN DEFAULT_SYNC_FREQUENCY
    ELSE conn.sync_frequency_minutes[1]

\* the test of the loop in _get_active_connections: not skipped as "not due yet"
IsDue(conn, n) ==
    ~ (conn.last_sync_at # <<>> /\ n < conn.last_sync_at[1] + freq_minutes(conn))

\* _get_active_connections at minute n: the active rows that are due, in row order
RECURSIVE DueFrom(_, _)
DueFrom(c, n) ==
    IF c > Len(connections) THEN <<>>
    ELSE IF connections[c].is_active /\ IsDue(connections[c], n)
         THEN <<c>> \o DueFrom(c + 1, n)
         ELSE DueFrom(c + 1, n)

_get_active_connections(n) == DueFrom(1, n)

\* How a call of process_connection goes: "ok" (the mailbox was read: no mail,
\* no new mail, or items processed), "mailbox_error" (login, select, search or
\* fetch raised inside the try), "raised" (an exception left process_connection).
PollOutcomes == {"ok", "mailbox_error", "raised"}

\* process_connection as far as the connection row goes: _update_last_sync on
\* every path but the return for a missing password and an escaping exception
process_connection(conn, outcome, n) ==
    IF outcome = "raised" THEN conn
    ELSE IF ~conn.has_password THEN conn
    ELSE [conn EXCEPT !.last_sync_at = <<n>>]

\* faulty variant: the loop over the connections without its try/except
RECURSIVE PolledUntilRaise(_, _)
PolledUntilRaise(due, outcome) ==
    IF due = <<>> THEN <<>>
    ELSE IF outcome[Head(due)] = "raised" THEN <<Head(due)>>
    ELSE <<Head(due)>> \o PolledUntilRaise(Tail(due), outcome)

\* the loop of process_all_connections: process_connection for each connection
\* in turn, an exception of one call caught and logged
RECURSIVE PolledInTurn(_, _)
PolledInTurn(due, outcome) ==
    IF due = <<>> THEN <<>>
    ELSE <<Head(due)>> \o PolledInTurn(Tail(due), outcome)

Range(q) == {q[i] : i \in DOMAIN q}

\* one tick of the polling loop at minute n: the connections returned are
\* polled; when none is returned, process_forwarded_emails (the legacy
\* single-inbox pass) runs instead
process_all_connections(n, outcome) ==
    LET due == _get_active_connections(n)
        done == PolledInTurn(due, outcome)
    IN  /\ poll_now' = n
        /\ legacy_pass' = (due = <<>>)
        /\ selected' = Range(due)
        /\ polled' = done
        /\ connections' = [c \in DOMAIN connections |->
                              IF c \in Range(done)
                              THEN process_connection(connections[c], outcome[c], n)
                              ELSE connections[c]]
        /\ poll_outcome' = [c \in DOMAIN connections |->
                              IF c \in Range(done) THEN outcome[c] ELSE "none"]
        /\ UNCHANGED outsideTick

\* a connection row comes into being: connected through email_setup (with a
\* password) or an env-credential row whose password variable may be unset
connection_created(has_password, frequency) ==
    /\ Len(connections) < MaxConns
    /\ connections' = Append(connections,
                             [is_active |-> TRUE, has_password |-> has_password,
                              sync_frequency_minutes |-> frequency,
                              last_sync_at |-> <<>>])
    /\ poll_outcome' = Append(poll_outcome, "none")
    /\ UNCHANGED <<poll_now, selected, polled, legacy_pass>>
    /\ UNCHANGED outsideTick

\* email_setup.toggle_connection
toggle_connection(c) ==
    /\ connections' = [connections EXCEPT ![c].is_active = ~@]
    /\ UNCHANGED <<poll_now, selected, polled, poll_outcome, legacy_pass>>
    /\ UNCHANGED outsideTick

\* the poller wakes after 5 or 20 minutes
TickGaps == {5, 20}
Frequencies == {<<>>, <<5>>}

TickInit ==
    /\ connections = <<>>
    /\ poll_now = 0
    /\ selected = {}
    /\ polled = <<>>
    /\ poll_outcome = <<>>
    /\ legacy_pass = FALSE

PollerTick ==
    \E d \in TickGaps, outcome \in [DOMAIN connections -> PollOutcomes] :
        /\ poll_now + d <= MaxPollTime
        /\ process_all_connections(poll_now + d, outcome)

ConnectionCreated ==
    \E has_password \in BOOLEAN, frequency \in Frequencies :
        connection_created(has_password, frequency)

ConnectionToggled == \E c \in DOMAIN connections : toggle_connection(c)

TickNext == PollerTick \/ ConnectionCreated \/ ConnectionToggled

\* ------------------------------- classification and Tier 1 execution of a message
\* the tenant's own address (user_context.email_address) and a client's
OwnAddresses == {"me@tenant"}
Addresses == OwnAddresses \cup {"client@x"}

\* what messages.create and json.loads give for one message
ClassifierResponses == {"parsed", "unparsable", "api_error"}

\* the single action of a parsed answer; email_address "" is a missing address,
\* existing_task_id 0 a missing id
AutoActions ==
    [action_type : {"create_task", "set_callback", "set_reminder", "update_task_notes"},
     email_address : Addresses \cup {""},
     existing_task_id : 0..MaxClientTasks]

None == <<>>

\* analyze_with_claude: the parsed answer, or None when the answer does not
\* parse or the API call raises
analyze_with_claude(response, action) ==
    IF response = "parsed" THEN <<action>> ELSE None

\* tm.find_existing_task_by_client(client_email): the open task whose
\* client_email is the address (0: none)
find_existing_task_by_client(client_email) ==
    LET hits == {i \in DOMAIN client_tasks :
                    /\ client_tasks[i].status = "pending"
                    /\ client_tasks[i].client_email = client_email}
    IN  IF client_email = "" \/ hits = {} THEN 0
        ELSE CHOOSE i \in hits : \A j \in hits : i <= j

\* tm.add_note(task_id, ...): one note more on the task
add_note(table, task_id) ==
    [table EXCEPT ![task_id].notes = @ + 1]

\* faulty variant: a task is inserted whatever the matcher says
_create_task_always_inserts(table, action, matcher_ok) ==
    Append(table, [client_email |-> action.email_address, status |-> "pending",
                   notes |-> 0])

\* _create_task: the matcher is asked when the action names a client; a hit
\* turns the action into a note, otherwise (no client, no hit, or a lookup that
\* raised) a task is inserted
_create_task(table, action, matcher_ok) ==
    LET existing_task ==
            IF action.email_address # "" /\ matcher_ok
            THEN find_existing_task_by_client(action.email_address)
            ELSE 0
    IN  IF existing_task # 0
        THEN add_note(table, existing_task)
        ELSE Append(table, [client_email |-> action.email_address,
                            status |-> "pending", notes |-> 0])

\* _update_existing_task: a note on the task named by the action, or
\* _create_task when the action names none
_update_existing_task(table, action, matcher_ok) ==
    IF action.existing_task_id = 0
    THEN _create_task(table, action, matcher_ok)
    ELSE add_note(table, action.existing_task_id)

\* execute_action on the tasks table
execute_action_on(table, action, matcher_ok) ==
    IF action.action_type = "update_task_notes"
    THEN _update_existing_task(table, action, matcher_ok)
    ELSE IF action.action_type \in {"create_task", "set_callback", "set_reminder"}
    THEN _create_task(table, action, matcher_ok)
    ELSE table

TotalNotes(table) ==
    LET RECURSIVE Sum(_)
        Sum(i) == IF i > Len(table) THEN 0 ELSE table[i].notes + Sum(i + 1)
    IN  Sum(1)

\* the action standing for that of an answer that carried none, and the
\* record before any message
NoAction ==
    [action_type |-> "create_task", email_address |-> "", existing_task_id |-> 0]

NoMessage ==
    [response |-> "none", action_type |-> NoAction.action_type,
     email_address |-> NoAction.email_address]

\* process_single_email_body for a message with one extracted action, on the
\* tasks table: nothing when there is no analysis, else the Tier 1 action is run
process_message(response, action, matcher_ok) ==
    LET analysis == analyze_with_claude(response, action)
        after == IF analysis = None THEN client_tasks
                 ELSE IF classify_action_tier(analysis[1].action_type) = TIER_1_AUTO
                 THEN execute_action_on(client_tasks, analysis[1], matcher_ok)
                 ELSE client_tasks
    IN  /\ action.existing_task_id \in 0..Len(client_tasks)
        /\ action.action_type # "update_task_notes" => action.existing_task_id = 0
        /\ response # "parsed" => action = NoAction
        /\ Len(after) <= MaxClientTasks
        /\ TotalNotes(after) <= MaxNotes
        /\ client_tasks' = after
        /\ last_message' = [response |-> response,
                            action_type |-> action.action_type,
                            email_address |-> action.email_address]
        /\ UNCHANGED matched
        /\ UNCHANGED outsideAuto

\* the legacy processor's hard-coded owner_emails
owner_emails == OwnAddresses

\* client names: none, 'q' and 'Ann Q'
Names == {<<>>, <<"q">>, <<"A", "n", "n", " ", "Q">>}

\* a in b, for two strings
IsSubstring(a, b) ==
    \E i \in 0..(Len(b) - Len(a)) : SubSeq(b, i + 1, i + Len(a)) = a

\* the first row of a keyword query: the task, and its client_name column as
\* the query reads it (the table of the model keeps the address, the status
\* and the notes)
Hits == [task : 1..MaxClientTasks, client_name : Names]

\* the rows of the keyword queries, one per keyword that found a task, in the
\* order of project_keywords
HitLists == {<<>>} \cup {<<h>> : h \in Hits} \cup {<<h, g>> : h \in Hits, g \in Hits}

\* 'Verify it's the same client': by address when the extraction and the task
\* both have one, else by name when both have one
SameClient(hit, client_email, client_name) ==
    IF client_email # "" /\ client_tasks[hit.task].client_email # ""
    THEN client_tasks[hit.task].client_email = client_email
    ELSE /\ client_name # <<>> /\ hit.client_name # <<>>
         /\ IsSubstring(LowerAll(client_name), LowerAll(hit.client_name))

\* the loop over project_keywords: the first hit of the same client (0: none)
RECURSIVE KeywordMatch(_, _, _)
KeywordMatch(hits, client_email, client_name) ==
    IF hits = <<>> THEN 0
    ELSE IF SameClient(Head(hits), client_email, client_name) THEN Head(hits).task
    ELSE KeywordMatch(Tail(hits), client_email, client_name)

\* faulty variant: a keyword hit is returned without the check of the client
find_matching_task_unverified(client_email, client_name, hits) ==
    IF client_email \in owner_emails THEN 0
    ELSE LET existing == find_existing_task_by_client(client_email)
         IN  IF existing # 0 THEN existing
             ELSE IF hits # <<>> THEN Head(hits).task ELSE 0

\* CloudEmailProcessor.find_matching_task: none for an owner address; else the
\* match by address; else the first keyword hit of the same client; else none
find_matching_task(client_email, client_name, hits) ==
    IF client_email \in owner_emails THEN 0
    ELSE LET existing == find_existing_task_by_client(client_email)
         IN  IF existing # 0 THEN existing
             ELSE KeywordMatch(hits, client_email, client_name)

\* CloudEmailProcessor.process_single_email from the matcher on: a note on the
\* task found, or a new task
cloud_process_single_email(client_email, client_name, hits) ==
    LET existing_task == find_matching_task(client_email, client_name, hits)
        after == IF existing_task # 0
                 THEN add_note(client_tasks, existing_task)
                 ELSE Append(client_tasks, [client_email |-> client_email,
                                            status |-> "pending", notes |-> 0])
    IN  /\ \A i \in 1..Len(hits) :
               /\ hits[i].task \in 1..Len(client_tasks)
               /\ client_tasks[hits[i].task].status # "completed"
        /\ Len(after) <= MaxClientTasks
        /\ TotalNotes(after) <= MaxNotes
        /\ client_tasks' = after
        /\ last_message' = [response |-> "legacy", action_type |-> "create_task",
                            email_address |-> client_email]
        /\ UNCHANGED matched
        /\ UNCHANGED outsideAuto

\* app.handle_complete on a task of the table
client_task_completed(i) ==
    /\ client_tasks[i].status = "pending"
    /\ client_tasks' = [client_tasks EXCEPT ![i].status = "completed"]
    /\ UNCHANGED <<last_message, matched>>
    /\ UNCHANGED outsideAuto

\* the tasks tables a call of the matcher may find
TaskRows ==
    [client_email : Addresses \cup {""}, status : {"pending", "completed"}, notes : {0}]

TaskTables ==
    {<<>>} \cup {<<r>> : r \in TaskRows}
           \cup (IF MaxClientTasks >= 2 THEN {<<r, q>> : r \in TaskRows, q \in TaskRows} ELSE {})
           \cup (IF MaxClientTasks >= 3
                 THEN {<<r, q, p>> : r \in TaskRows, q \in TaskRows, p \in TaskRows}
                 ELSE {})

NotMatched ==
    [called |-> FALSE, client_email |-> "", client_name |-> <<>>, hits |-> <<>>,
     found |-> 0]

\* one call of find_matching_task, on a table of tasks
matcher_called(table, client_email, client_name, hits) ==
    /\ ~matched.called
    /\ client_tasks = <<>>
    /\ \A i \in 1..Len(hits) :
           /\ hits[i].task \in 1..Len(table)
           /\ table[hits[i].task].status # "completed"
    /\ client_tasks' = table
    /\ matched' = [called |-> TRUE, client_email |-> client_email,
                   client_name |-> client_name, hits |-> hits,
                   found |-> find_matching_task(client_email, client_name, hits)']
    /\ UNCHANGED last_message
    /\ UNCHANGED outsideAuto

AutoInit ==
    /\ client_tasks = <<>>
    /\ last_message = NoMessage
    /\ matched = NotMatched

MessageProcessed ==
    \E response \in ClassifierResponses, action \in AutoActions, matcher_ok \in BOOLEAN :
        process_message(response, action, matcher_ok)

ClientTaskCompleted == \E i \in DOMAIN client_tasks : client_task_completed(i)

\* the keyword queries of a message with one keyword, on tasks without a
\* client_name
NamelessHitLists ==
    {<<>>} \cup {<<[task |-> t, client_name |-> <<>>]>> : t \in 1..MaxClientTasks}

\* a legacy message whose extraction has no client name and one keyword
LegacyMessageProcessed ==
    \E client_email \in Addresses \cup {""}, hits \in NamelessHitLists :
        cloud_process_single_email(client_email, <<>>, hits)

MatcherNext ==
    /\ ~matched.called
    /\ \E table \in TaskTables, client_email \in Addresses \cup {""}, client_name \in Names,
          hits \in HitLists :
           matcher_called(table, client_email, client_name, hits)

AutoNext == MessageProcessed \/ LegacyMessageProcessed \/ ClientTaskCompleted

\* ------------------------------------------------------------ daily summary
\* timezones as offsets from UTC in minutes: UTC and Australia/Brisbane
Timezones == {0, 600}

\* daily_summary_time as <<hour, minute>>; <<>> is a null column
SummaryTimes == {<<>>, <<8, 30>>}

SUMMARY_WINDOW == 5
DEFAULT_SUMMARY_HOUR == 8

\* datetime.astimezone / datetime.now(user_tz), and the fields of a local time
LocalTime(n, tz) == n + tz
HourOf(l) == (l % MinutesPerDay) \div 60
MinuteOf(l) == l % 60

\* the hour and minute parsed from daily_summary_time (8:00 when it is null)
summary_hour(user) ==
    IF user.daily_summary_time = <<>> THEN DEFAULT_SUMMARY_HOUR
    ELSE user.daily_summary_time[1]

summary_minute(user) ==
    IF user.daily_summary_time = <<>> THEN 0 ELSE user.daily_summary_time[2]

\* "already sent today": last_summary_sent_at falls on the local date of n
SentToday(user, n) ==
    /\ user.last_summary_sent_at # NoStamp
    /\ DateOf(LocalTime(user.last_summary_sent_at[1], user.timezone))
           = DateOf(LocalTime(n, user.timezone))

\* faulty variant: the date of the last summary is not looked at
NeedsSummaryEveryTick(user, n) ==
    /\ user.daily_summary_enabled
    /\ HourOf(LocalTime(n, user.timezone)) = summary_hour(user)
    /\ MinuteOf(LocalTime(n, user.timezone)) < SUMMARY_WINDOW

\* the test of get_users_needing_summary for one user at instant n
NeedsSummary(user, n) ==
    /\ user.daily_summary_enabled
    /\ HourOf(LocalTime(n, user.timezone)) = summary_hour(user)
    /\ MinuteOf(LocalTime(n, user.timezone)) < SUMMARY_WINDOW
    /\ ~SentToday(user, n)

get_users_needing_summary(n) ==
    {u \in DOMAIN users : NeedsSummary(users[u], n)}

\* how send_daily_summary goes for a user: mailed, nothing to report, or the
\* mail provider refused
SummaryOutcomes == {"sent", "nothing", "failed"}

\* send_daily_summary: the row after it; last_summary_sent_at is stamped unless
\* the send failed
send_daily_summary(user, outcome, n) ==
    IF outcome = "failed" THEN user
    ELSE [user EXCEPT !.last_summary_sent_at = <<n>>]

\* one pass of run_scheduler's loop over the summaries, at instant n
summary_check(n, outcome) ==
    LET users_to_notify == get_users_needing_summary(n)
    IN  /\ summary_now' = n
        /\ summary_selected' = users_to_notify
        /\ users' = [u \in DOMAIN users |->
                        IF u \in users_to_notify
                        THEN send_daily_summary(users[u], outcome[u], n)
                        ELSE users[u]]
        /\ digests' = [u \in DOMAIN users |->
                          IF u \in users_to_notify /\ outcome[u] = "sent"
                          THEN digests[u] \cup {n}
                          ELSE digests[u]]
        /\ UNCHANGED outsideSummary

\* a user row: timezone from onboarding, the summary columns as stored
user_created(timezone, daily_summary_time, enabled) ==
    /\ Len(users) < MaxUsers
    /\ users' = Append(users, [timezone |-> timezone,
                               daily_summary_time |-> daily_summary_time,
                               daily_summary_enabled |-> enabled,
                               last_summary_sent_at |-> NoStamp])
    /\ digests' = Append(digests, {})
    /\ UNCHANGED <<summary_now, summary_selected>>
    /\ UNCHANGED outsideSummary

\* minutes of the UTC day the scheduler is observed at: around 08:00 and 08:30
\* UTC, and around 22:00 and 22:30 UTC (08:00 and 08:30 in Brisbane)
MinuteMarks == {479, 480, 483, 485, 511, 1320, 1323, 1351}

SummaryInstants ==
    {n \in 1..MaxSummaryTime : (n % MinutesPerDay) \in MinuteMarks}

SummaryInit ==
    /\ users = <<>>
    /\ digests = <<>>
    /\ summary_now = 0
    /\ summary_selected = {}

SummaryTick ==
    \E n \in SummaryInstants, outcome \in [DOMAIN users -> SummaryOutcomes] :
        /\ n > summary_now
        /\ summary_check(n, outcome)

UserCreated ==
    \E timezone \in Timezones, daily_summary_time \in SummaryTimes, enabled \in BOOLEAN :
        user_created(timezone, daily_summary_time, enabled)

SummaryNext == SummaryTick \/ UserCreated

\* ------------------------------------------------------------------ send_email
\* os.getenv('RESEND_API_KEY'): unset, set to the empty string, or a key
ApiKeys == {<<>>, <<"">>, <<"re_key">>}

\* resend.Emails.send returns, or throws an exception with the text given
ProviderOutcomes ==
    {[throws |-> FALSE, text |-> <<>>],
     [throws |-> TRUE, text |-> <<"API", "timeout">>],
     [throws |-> TRUE, text |-> <<"rate", "limited">>],
     [throws |-> TRUE, text |-> <<>>]}

NOT_CONFIGURED == <<"RESEND_API_KEY", "not", "configured">>

\* faulty variant: the provider is called whatever the key
send_email_without_key_test(api_key, provider) ==
    IF provider.throws
    THEN [returned |-> <<FALSE, provider.text>>, provider_called |-> TRUE,
          raised |-> FALSE]
    ELSE [returned |-> <<TRUE, None>>, provider_called |-> TRUE, raised |-> FALSE]

\* send_email: what it returns, whether it called the provider, whether an
\* exception left it. An unset or empty key is "not api_key".
send_email(api_key, provider) ==
    IF api_key = <<>> \/ api_key = <<"">>
    THEN [returned |-> <<FALSE, NOT_CONFIGURED>>, provider_called |-> FALSE,
          raised |-> FALSE]
    ELSE IF provider.throws
    THEN [returned |-> <<FALSE, provider.text>>, provider_called |-> TRUE,
          raised |-> FALSE]
    ELSE [returned |-> <<TRUE, None>>, provider_called |-> TRUE, raised |-> FALSE]

send_email_called(api_key, provider) ==
    /\ Len(send_calls) < MaxSends
    /\ send_calls' = Append(send_calls, [api_key |-> api_key, provider |-> provider,
                                         result |-> send_email(api_key, provider)])
    /\ UNCHANGED outsideSend

SendInit == send_calls = <<>>

SendNext ==
    \E api_key \in ApiKeys, provider \in ProviderOutcomes :
        send_email_called(api_key, provider)

\* ------------------------------------------------- _normalize_subject, called
\* the pieces sample subjects are put together from: reply and forward prefixes
\* in several spellings, their fragments, blanks and the subject's own letters
SubjectAtoms ==
    { <<"R", "e", ":">>, <<"R", "E", " ", ":", " ">>, <<"f", "w", "d", ":">>,
      <<"F", "W", ":">>, <<"r", "e">>, <<"f", "w">>, <<":">>, <<" ">>, <<"q">>, <<"Q">> }

RECURSIVE SubjectsUpTo(_)
SubjectsUpTo(n) ==
    IF n = 0 THEN {<<>>}
    ELSE LET shorter == SubjectsUpTo(n - 1)
         IN  shorter \cup {a \o s : a \in SubjectAtoms, s \in shorter}

Subjects == SubjectsUpTo(MaxAtoms)

NotCalled == [called |-> FALSE, subject |-> <<>>, result |-> <<>>]

normalize_called(subject) ==
    /\ ~normalized.called
    /\ normalized' = [called |-> TRUE, subject |-> subject,
                      result |-> _normalize_subject(subject)]
    /\ UNCHANGED outsideSubject

SubjectInit == normalized = NotCalled

SubjectNext == \E subject \in Subjects : normalize_called(subject)

\* ------------------------------------ one tick of run_scheduler, with errors
\* what the iteration for one task meets: nothing, a due_time that does not
\* parse, a user_id not among the users, a timezone pytz does not know, a send
\* the provider refuses, or a store that raises on the reminder_sent_at update
TaskFaults ==
    {"none", "bad_due_time", "unknown_owner", "bad_timezone", "send_fails", "store_raises"}

\* what the selection or the digest of one user meets: nothing, a timezone pytz
\* does not know (or null), a send the provider refuses, or a store that raises
\* in send_daily_summary
UserFaults == {"none", "bad_timezone", "send_fails", "store_raises"}

\* faulty variant: the body of the loop has no try/except of its own
reminder_iteration_unguarded(fault) ==
    [reminded |-> fault \in {"none", "store_raises"},
     escapes |-> fault \in {"bad_timezone", "store_raises"}]

\* the body of the loop over the tasks (all in the firing window): the skips by
\* continue, and the try/except around the whole body, which prints and goes on
reminder_iteration(fault) ==
    [reminded |-> fault \in {"none", "store_raises"}, escapes |-> FALSE]

\* the loop of check_and_send_reminders from task i on: the tasks it reaches
RECURSIVE ReminderLoop(_, _)
ReminderLoop(faults, i) ==
    IF i > Len(faults) THEN {}
    ELSE IF reminder_iteration(faults[i]).escapes THEN {i}
    ELSE {i} \cup ReminderLoop(faults, i + 1)

\* get_users_needing_summary: pytz.timezone(user.get('timezone', ...)) is
\* called in the loop outside any try, so one unknown timezone raises out of the
\* function; else every user is selected (all are in their window)
selection_raises(faults) == \E u \in 1..Len(faults) : faults[u] = "bad_timezone"

\* 'for user in users: send_daily_summary(user)' from user u on: the users
\* mailed. send_daily_summary returns after a refused send and raises what the
\* store raises (in get_user_tasks_summary, before the email is built)
RECURSIVE DigestLoop(_, _)
DigestLoop(faults, u) ==
    IF u > Len(faults) THEN {}
    ELSE IF faults[u] = "store_raises" THEN {}
    ELSE (IF faults[u] = "none" THEN {u} ELSE {}) \cup DigestLoop(faults, u + 1)

NoTickRun ==
    [called |-> FALSE, task_faults |-> <<>>, user_faults |-> <<>>, evaluated |-> {},
     reminded |-> {}, digested |-> {}, scheduler_error |-> FALSE]

\* one pass of the while loop of run_scheduler: check_and_send_reminders, then
\* the selection and the digests inside the try whose handler prints 'Scheduler
\* error', sleeps and goes on to the next pass
run_scheduler_tick(task_faults, user_faults) ==
    LET reached == ReminderLoop(task_faults, 1)
    IN  /\ ~tick_run.called
        /\ tick_run' =
               [called |-> TRUE, task_faults |-> task_faults, user_faults |-> user_faults,
                evaluated |-> reached,
                reminded |-> {i \in reached : reminder_iteration(task_faults[i]).reminded},
                digested |-> IF selection_raises(user_faults) THEN {}
                             ELSE DigestLoop(user_faults, 1),
                scheduler_error |->
                    \/ selection_raises(user_faults)
                    \/ \E u \in 1..Len(user_faults) : user_faults[u] = "store_raises"]
        /\ UNCHANGED outsideSched

SchedInit == tick_run = NoTickRun

SchedNext ==
    /\ ~tick_run.called
    /\ \E task_faults \in SeqsUpTo(TaskFaults, MaxLoop),
          user_faults \in SeqsUpTo(UserFaults, MaxLoop) :
           run_scheduler_tick(task_faults, user_faults)

Init ==
    /\ ApprovalInit /\ PollInit /\ ReminderInit /\ TierInit /\ TickInit /\ AutoInit
    /\ SummaryInit /\ SendInit /\ SubjectInit /\ SchedInit

Spec == Init /\ [][ApprovalNext]_vars

SpecSequential == Init /\ [][SequentialNext]_vars

SpecStoreFaults == Init /\ [][StoreFaultsNext]_vars

SpecExpiry == Init /\ [][ExpiryNext]_vars

SpecEdit == Init /\ [][EditNext]_vars

SpecPoll == Init /\ [][PollNext]_vars

SpecPollOverlap == Init /\ [][PollOverlapNext]_vars

SpecBacklog == Init /\ [][BacklogNext]_vars

SpecPollFaults == Init /\ [][PollFaultsNext]_vars

\* the worker's loop never stops polling: a cycle that can begin with the
\* mailbox answering does begin, and a cycle that has begun goes on
SpecPollLive ==
    Init /\ [][PollNext]_vars /\ WF_vars(CycleBeginsWell) /\ WF_vars(CycleProceeds)

SpecReminder == Init /\ [][ReminderNext]_vars

SpecReschedule == Init /\ [][RescheduleNext]_vars

SpecTier == Init /\ [][TierNext]_vars

SpecTick == Init /\ [][TickNext]_vars

SpecAuto == Init /\ [][AutoNext]_vars

SpecMatcher == Init /\ [][MatcherNext]_vars

SpecSummary == Init /\ [][SummaryNext]_vars

SpecSend == Init /\ [][SendNext]_vars

SpecSchedulerTick == Init /\ [][SchedNext]_vars

SpecSubject == Init /\ [][SubjectNext]_vars

RunsOfMessage(id) ==
    LET uids == {u \in 1..Len(mailbox) :
                    id = (IF mailbox[u].message_id = 0 THEN UidStr(u)
                          ELSE MessageIdHeader(mailbox[u].message_id))}
        RECURSIVE Sum(_)
        Sum(S) == IF S = {} THEN 0
                  ELSE LET u == CHOOSE u \in S : TRUE IN runs[u] + Sum(S \ {u})
    IN  Sum(uids)

\* ------------------------------------------------------------------ claims
ApproveKinds == {"approve_action", "execute_approved_action"}
AlreadyProcessed == {"already_processed", "not_found_or_already_processed"}

\* two approve calls on t, one right after the other, the first on a pending token
ApprovedTwice(t, i) ==
    /\ i \in 1..(Len(log[t]) - 1)
    /\ log[t][i].kind \in ApproveKinds
    /\ log[t][i + 1].kind \in ApproveKinds
    /\ log[t][i].before = "pending"

\* C1 as stated: two sequential approve(token) calls on a pending token make
\* exactly one Task/Note mutation in total; the second returns "already
\* processed" and leaves the status as the first call set it.
C1_ApproveTwiceOneTaskNoteMutation ==
    \A t \in Tokens : \A i \in 1..MaxCalls :
        ApprovedTwice(t, i) =>
            /\ log[t][i].tn + log[t][i + 1].tn = 1
            /\ log[t][i + 1].result \in AlreadyProcessed
            /\ log[t][i + 1].after = log[t][i].after

\* C2: when two approve(token) requests on one pending token interleave, the
\* action is executed at most once (one Task/Note or CRM side effect).
C2_InterleavedApproveExecutesOnce ==
    \A t \in Tokens : taskNotes[t] + crmNotes[t] <= 1

\* C3: once a PendingAction is approved, rejected, failed or expired, no later
\* approve or reject call changes its status or its processed_at.
C3_TerminalStatusIsFinal ==
    [][\A t \in Tokens :
           pending_actions[t].status \in TerminalStatuses =>
               /\ pending_actions'[t].status = pending_actions[t].status
               /\ pending_actions'[t].processed_at = pending_actions[t].processed_at]_vars

ApproveAccepted(t) ==
    \/ \E c \in Calls : /\ calls[c].token = t
                        /\ calls[c].kind \in ApproveKinds
                        /\ calls[c].pc = "mark"
    \/ \E i \in 1..Len(log[t]) : /\ log[t][i].kind \in ApproveKinds
                                 /\ log[t][i].before = "pending"

\* C4: no Task or Note is created or modified for an action classified Tier 2
\* unless approve(token) accepted its PendingAction: processing the message
\* executes Tier 1 actions only, and a stored PendingAction has no Task/Note
\* (or CRM) effect before an approve call found it pending.
C4_Tier2OnlyThroughApprove ==
    /\ \A ty \in autoExecuted : classify_action_tier(ty) # TIER_2_APPROVE
    /\ \A t \in Tokens : taskNotes[t] + crmNotes[t] > 0 => ApproveAccepted(t)

C4_Witness ==
    \E t \in Tokens :
        /\ pending_actions[t].status = "pending"
        /\ classify_action_tier(pending_actions[t].action_type) = TIER_2_APPROVE
        /\ pending_actions[t].emailed
        /\ taskNotes[t] + crmNotes[t] = 0
        /\ "create_task" \in autoExecuted

MessageIdOf(u) ==
    IF mailbox[u].message_id = 0 THEN UidStr(u) ELSE MessageIdHeader(mailbox[u].message_id)

\* C5: over any sequence of poll cycles of one connection, the items carrying
\* one message-identifier get one run of the classify-and-execute step in total
\* and one Ledger row for (connection_id, message_identifier).
C5_OneRunAndOneRowPerMessageId ==
    \A u \in 1..Len(mailbox) :
        /\ RunsOfMessage(MessageIdOf(u)) <= 1
        /\ Cardinality({r \in processed_emails : r.email_id = MessageIdOf(u)}) <= 1
        /\ RunsOfMessage(MessageIdOf(u)) = 1 /\ NoCycleRunning =>
               Cardinality({r \in processed_emails : r.email_id = MessageIdOf(u)}) = 1

\* C6: two overlapping poll cycles of one connection never both classify and
\* execute the same mailbox item.
C6_OverlapRunsItemOnce ==
    \A u \in 1..Len(mailbox) : runs[u] <= 1

\* the due instant of a task as its row states it
DueInstant(task) == task.due_date * MinutesPerDay + task.due_time

\* a reminder is recorded for the task's due date
RecordedForDueDate(task) ==
    /\ task.reminder_sent_at # NoStamp
    /\ DateOf(task.reminder_sent_at[1]) >= task.due_date

C9_NoSendPastCeiling ==
    \A t \in DOMAIN tasks :
        \A i \in DOMAIN sent[t] :
            /\ sent[t][i].at - DueInstant(tasks[t]) <= CATCHUP_CEILING
            /\ tasks[t].due_date >= DateOf(sent[t][i].at) - 1

\* a task due yesterday, never sent, met by a tick past the ceiling with the
\* mail provider up: nothing was sent
C9_Witness ==
    \E t \in DOMAIN tasks :
        /\ send_failed[t]
        /\ mail_up
        /\ tasks[t].status = "pending"
        /\ tasks[t].reminder_sent_at = NoStamp
        /\ sent[t] = <<>>
        /\ tasks[t].due_date = DateOf(now) - 1
        /\ now - DueInstant(tasks[t]) > CATCHUP_CEILING

RowsOfUid(u) == {r \in processed_emails : r.uid = UidStr(u)}

\* C11: at the end of a poll cycle every candidate the cycle handled (classified,
\* failed to fetch, or skipped as a duplicate) has exactly one Ledger row that
\* records it, and a fetch failure is recorded as 'fetch-fail-<uid>' with its uid.
C11_HandledCandidateHasOneRow ==
    \A k \in Cycles :
        cycles[k].pc = "idle" =>
            \A u \in cycles[k].handled : Cardinality(RowsOfUid(u)) = 1

\* the candidates of run k that reached the subject test with normalized subject ns
SameSubject(k, ns) ==
    {u \in cycles[k].passed \cup cycles[k].dupes : _normalize_subject(mailbox[u].subject) = ns}

\* C12: within one poll cycle, of the candidates whose normalized subjects are
\* equal and non-empty exactly one is passed to classification; each of the
\* others is recorded in the Ledger under its own identifiers (its
\* message-identifier and its server item id) and is not classified.
C12_OneClassificationPerSubject ==
    \A k \in Cycles :
        cycles[k].pc = "idle" =>
            \A u \in cycles[k].passed \cup cycles[k].dupes :
                LET ns == _normalize_subject(mailbox[u].subject) IN
                ns # <<>> =>
                    /\ Cardinality(SameSubject(k, ns) \cap cycles[k].passed) = 1
                    /\ u \in cycles[k].dupes =>
                          /\ u \notin cycles[k].passed
                          /\ [email_id |-> MessageIdOf(u), uid |-> UidStr(u)]
                                 \in processed_emails

\* C13: every poll of a due connection ends with last_sync_at stamped to the
\* time of the poll: each connection process_connection was called for at the
\* last tick carries that tick's time (no exit path leaves it unchanged).
C13_EveryPollStampsLastSync ==
    \A i \in DOMAIN polled : connections[polled[i]].last_sync_at = <<poll_now>>

\* C14: a connection is selected at a tick iff it is active and has no
\* last_sync_at or now >= last_sync_at + sync_frequency (default 15 minutes);
\* and a connection polled less than its sync_frequency ago is not polled again.
C14_SelectedIffActiveAndDue ==
    /\ [][poll_now' > poll_now =>
            selected' = {c \in DOMAIN connections :
                            /\ connections[c].is_active
                            /\ \/ connections[c].last_sync_at = <<>>
                               \/ poll_now' >= connections[c].last_sync_at[1]
                                        + (IF connections[c].sync_frequency_minutes = <<>>
                                           THEN 15
                                           ELSE connections[c].sync_frequency_minutes[1])}]_vars
    /\ [][poll_now' > poll_now =>
            \A c \in Range(polled) :
                poll_now' - poll_now < freq_minutes(connections[c])
                    => c \notin Range(polled')]_vars

\* C15: within one tick the due connections are polled one after another, and a
\* failure while polling one of them does not stop the tick: every connection
\* selected at the tick is polled, once.
C15_FailureDoesNotStopTick ==
    \A c \in selected : Cardinality({i \in DOMAIN polled : polled[i] = c}) = 1

\* a poll failed and a connection after it in the same tick was polled and stamped
C15_Witness ==
    \E i, j \in DOMAIN polled :
        /\ i < j
        /\ poll_outcome[polled[i]] \in {"mailbox_error", "raised"}
        /\ poll_outcome[polled[j]] = "ok"
        /\ connections[polled[j]].last_sync_at = <<poll_now>>

\* the create_task family
CreateTaskFamily == {"create_task", "set_callback", "set_reminder"}

\* the step added one note to task t and nothing else
OneNoteOn(t) ==
    /\ Len(client_tasks') = Len(client_tasks)
    /\ client_tasks'[t].notes = client_tasks[t].notes + 1
    /\ \A i \in DOMAIN client_tasks :
          /\ i # t => client_tasks'[i] = client_tasks[i]
          /\ client_tasks'[i].client_email = client_tasks[i].client_email
          /\ client_tasks'[i].status = client_tasks[i].status

\* the step inserted one task and added no note
OneTaskInserted ==
    /\ Len(client_tasks') = Len(client_tasks) + 1
    /\ \A i \in DOMAIN client_tasks : client_tasks'[i] = client_tasks[i]
    /\ client_tasks'[Len(client_tasks')].notes = 0

\* C16: a message whose classifier answer did not parse still produces a task
\* or a note (the fallback create_task action is executed): processing it
\* never leaves the tasks table as it was
C16_ParseFailureStillActs ==
    [][\A matcher_ok \in BOOLEAN :
          process_message("unparsable", NoAction, matcher_ok)
              => (OneTaskInserted \/ \E t \in DOMAIN client_tasks : OneNoteOn(t))]_vars

C18_OwnAddressNeverMatched ==
    /\ [][\A action \in AutoActions, matcher_ok \in BOOLEAN :
            (/\ action.action_type \in CreateTaskFamily
             /\ action.email_address \in OwnAddresses
             /\ process_message("parsed", action, matcher_ok))
            => OneTaskInserted]_vars
    /\ [][\A client_email \in OwnAddresses, hits \in NamelessHitLists :
            cloud_process_single_email(client_email, <<>>, hits)
            => OneTaskInserted]_vars

C20_DigestOnlyInWindow ==
    \A u \in DOMAIN users : \A t \in digests[u] :
        LET l == LocalTime(t, users[u].timezone)
            m == HourOf(l) * 60 + MinuteOf(l)
            w == summary_hour(users[u]) * 60 + summary_minute(users[u])
        IN  w <= m /\ m < w + SUMMARY_WINDOW

RejectKinds == {"reject_action", "AIEmailProcessor.reject_action"}

\* the step finished a call of the kinds given on token t
Finished(t, kinds) ==
    /\ Len(log'[t]) = Len(log[t]) + 1
    /\ log'[t][Len(log'[t])].kind \in kinds

\* C21: a reject call that finds the token pending leaves the row rejected with
\* processed_at set, and no step of a reject call touches a task, a note, the
\* CRM, another row or the other columns of its row
C21_RejectOnlySetsStatus ==
    [][\A t \in Tokens :
          Finished(t, RejectKinds) =>
              /\ taskNotes' = taskNotes
              /\ crmNotes' = crmNotes
              /\ autoExecuted' = autoExecuted
              /\ \A u \in Tokens \ {t} : pending_actions'[u] = pending_actions[u]
              /\ pending_actions'[t].action_type = pending_actions[t].action_type
              /\ pending_actions'[t].emailed = pending_actions[t].emailed
              /\ log'[t][Len(log'[t])].before = "pending" =>
                     /\ pending_actions'[t].status = "rejected"
                     /\ pending_actions'[t].processed_at # 0]_vars

\* C21 witness: a reject call on a pending token has finished, the row is
\* rejected and its action has made no task and no note
C21_Witness ==
    \E t \in Tokens :
        /\ Len(log[t]) = 1
        /\ log[t][1].kind \in RejectKinds
        /\ log[t][1].before = "pending"
        /\ pending_actions[t].status = "rejected"
        /\ taskNotes[t] = 0

\* C22: an approve call that found the token pending and started the executor
\* ends with the row approved when the executor succeeded and failed when it
\* did not, a raise included; it never ends with the row still pending
C22_ApproveEndsApprovedOrFailed ==
    \A t \in Tokens : \A i \in 1..Len(log[t]) :
        (log[t][i].kind \in ApproveKinds /\ log[t][i].before = "pending") =>
            /\ log[t][i].after \in {"approved", "failed"}
            /\ log[t][i].after = "approved" <=> log[t][i].result \in {"approved", "success"}

\* C26: when no call is in flight, an action whose executor has made a task or
\* a note is approved or failed
C26_TaskOnlyIfApprovedOrFailed ==
    NoCallInFlight =>
        \A t \in Tokens :
            taskNotes[t] > 0 => pending_actions[t].status \in {"approved", "failed"}

\* C25: processing a message with n Tier 2 actions stores n new rows, all
\* pending, and, when the mail provider accepts mail, sends one approval email
\* that carries the tokens of exactly these n rows (none when n = 0)
C25_QueueApprovalStoresAndMailsAll ==
    [][\A actions \in Analyses, sendOk \in BOOLEAN, defect \in Defects :
          process_single_email_body(actions, sendOk, defect) =>
              LET n == Cardinality(SelectIdx(actions, TIER_2_APPROVE))
                  new == StoredTokens' \ StoredTokens
              IN  /\ Cardinality(new) = n
                  /\ \A t \in new : pending_actions'[t].status = "pending"
                  /\ (sendOk /\ n > 0) =>
                         /\ Len(approval_emails') = Len(approval_emails) + 1
                         /\ approval_emails'[Len(approval_emails')] = new
                  /\ n = 0 => approval_emails' = approval_emails]_vars

\* C23: a tick runs the legacy single-inbox pass only when no active connection
\* exists at the tick, due for sync or not
C23_LegacyOnlyWithoutActiveConnections ==
    [][(poll_now' > poll_now /\ legacy_pass') =>
          \A c \in DOMAIN connections : ~connections[c].is_active]_vars

\* the words "not configured" occur in a message
ContainsNotConfigured(msg) ==
    \E i \in 1..(Len(msg) - 1) : msg[i] = "not" /\ msg[i + 1] = "configured"

C27_ReminderOnlyInFiringWindow ==
    [][\A t \in DOMAIN tasks :
          Len(sent'[t]) > Len(sent[t]) =>
              LET delta == DueInstant(tasks[t]) - now'
                  mail == sent'[t][Len(sent'[t])]
              IN  /\ tasks[t].status = "pending"
                  /\ tasks[t].due_time # NoDueTime
                  /\ tasks[t].due_date \in {DateOf(now'), DateOf(now') - 1}
                  /\ 0 - 1440 <= delta /\ delta <= 30
                  /\ mail.at = now'
                  /\ mail.variant = IF delta >= 0 THEN "normal" ELSE "overdue"]_vars

\* C27 witness: the tick just taken sent the normal reminder of a task due
\* within the next 30 minutes
C27_Witness ==
    \E t \in DOMAIN tasks :
        /\ sent[t] = <<[at |-> now, variant |-> "normal"]>>
        /\ DueInstant(tasks[t]) - now \in 0..30

\* C30: a tick whose sends fail changes no task and records no reminder, a stamp
\* is written only by a tick whose send succeeded, and a pending unstamped task
\* still inside a firing window at the next tick is sent then
C30_FailedSendLeavesTaskForRetry ==
    /\ [][(now' > now /\ ~mail_up') => (tasks' = tasks /\ sent' = sent)]_vars
    /\ [][\A t \in DOMAIN tasks :
            tasks'[t].reminder_sent_at # tasks[t].reminder_sent_at =>
                /\ mail_up'
                /\ tasks'[t].reminder_sent_at = <<now'>>
                /\ Len(sent'[t]) = Len(sent[t]) + 1]_vars
    /\ [][\A t \in DOMAIN tasks :
            (/\ now' > now
             /\ mail_up' /\ ~mail_up
             /\ tasks[t].status = "pending"
             /\ tasks[t].due_time # NoDueTime
             /\ tasks[t].reminder_sent_at = NoStamp
             /\ tasks[t].due_date \in {DateOf(now'), DateOf(now') - 1}
             /\ DueInstant(tasks[t]) - now' \in (0 - 1440)..30)
            => Len(sent'[t]) = Len(sent[t]) + 1]_vars

\* C30 witness: the send of the last tick failed for a pending task inside its
\* upcoming window, which is left without stamp and without reminder
C30_Witness ==
    \E t \in DOMAIN tasks :
        /\ ~mail_up
        /\ tasks[t].status = "pending"
        /\ tasks[t].due_time # NoDueTime
        /\ tasks[t].due_date = DateOf(now)
        /\ DueInstant(tasks[t]) - now \in 0..30
        /\ tasks[t].reminder_sent_at = NoStamp
        /\ sent[t] = <<>>

\* the message of mailbox item u is in the Ledger, by its message-identifier or
\* by its server item id
InLedger(u) ==
    \E r \in processed_emails : r.email_id = MessageIdOf(u) \/ r.uid = UidStr(u)

\* C28: a message's Task/Note side effects and its Ledger row are never
\* separated: in no state between cycles, also after a refused Ledger insert or
\* a worker stopped between the two steps, is a message executed and absent from
\* the Ledger (to be classified and executed again by a later cycle)
C28_SideEffectsNeverWithoutLedgerRow ==
    NoCycleRunning => \A u \in 1..Len(mailbox) : runs[u] >= 1 => InLedger(u)

\* the candidate set a cycle beginning now would build
Candidates ==
    Unprocessed([u \in 1..Len(mailbox) |-> u], _load_processed_emails)

\* C29: once no new mail arrives, after finitely many poll cycles every item of
\* the look-back window is in the Ledger by its server item id and the candidate
\* set is empty, and stays so
C29_CandidateSetDrains ==
    <>[](/\ Candidates = <<>>
         /\ \A u \in 1..Len(mailbox) : RowsOfUid(u) # {})

\* str.upper on one character
Upper(c) ==
    CASE c = "r" -> "R"
      [] c = "e" -> "E"
      [] c = "f" -> "F"
      [] c = "w" -> "W"
      [] c = "d" -> "D"
      [] c = "q" -> "Q"
      [] OTHER -> c

\* spellings of a leading reply or forward token
PrefixSpellings ==
    { <<"R", "e", ":">>, <<"r", "E", " ", ":", " ">>, <<"F", "w", "d", ":", " ">>,
      <<"f", "W", " ", " ", ":">> }

\* C39: the normalized subject has no leading Re:/Fwd:/Fw: token left (in any
\* letter case, with blanks around the colon), is trimmed and lower-cased and is
\* the rest of the subject; normalizing it again changes nothing; and a subject
\* that differs from it by one more leading token or by letter case normalizes
\* to the same string
C39_NormalizedSubject ==
    normalized.called =>
        LET s == normalized.subject
            r == normalized.result
        IN  /\ \A k \in 1..Len(ReplyPrefixes) : ~MatchesAt(r, ReplyPrefixes[k])
            /\ r = <<>> \/ (r[1] # " " /\ r[Len(r)] # " ")
            /\ \A i \in 1..Len(r) : r[i] \notin {"R", "E", "F", "W", "D", "Q"}
            /\ \E i \in 0..Len(s) : \E j \in 0..(Len(s) - i) :
                   r = [n \in 1..(Len(s) - i - j) |-> Lower(s[i + n])]
            /\ _normalize_subject(r) = r
            /\ \A p \in PrefixSpellings : _normalize_subject(p \o s) = r
            /\ _normalize_subject([i \in 1..Len(s) |-> Upper(s[i])]) = r

\* C39 witness: 'Re:fwd:Q' was normalized to 'q'
C39_Witness ==
    /\ normalized.called
    /\ normalized.subject = <<"R", "e", ":", "f", "w", "d", ":", "Q">>
    /\ normalized.result = <<"q">>

\* C40: a call of edit changes no PendingAction, no Task and no Note, and the
\* page it renders carries the Approve and Skip links exactly when the status it
\* read is pending: for any other status, and for an unknown token, it has none
C40_EditReadsOnly ==
    [][page' # page =>
          /\ UNCHANGED <<pending_actions, taskNotes, crmNotes, autoExecuted, tasks,
                         client_tasks>>
          /\ page'.status = pending_actions[page'.token].status
          /\ page'.buttons <=> pending_actions[page'.token].status = "pending"]_vars

\* C40 witness: the page of an action that was approved before, without links
C40_Witness ==
    /\ page.code = 200
    /\ page.status = "approved"
    /\ ~page.buttons
    /\ taskNotes[page.token] = 1

\* the candidates of a cycle: what it has handled and what it still has to
Batch(k) == cycles[k].handled \cup {cycles[k].todo[i] : i \in 1..Len(cycles[k].todo)}

\* the items of the mailbox whose uid the Ledger does not hold
NotInLedger == {u \in 1..Len(mailbox) : UidStr(u) \notin _load_processed_emails}

\* C35: a cycle takes at most 20 candidates, the 20 items of highest uid that
\* the Ledger does not hold, and handles them newest-first; an older candidate
\* outside the batch is neither run nor entered in the Ledger during the cycle
C35_BatchIsTheNewestTwenty ==
    [][\A k \in Cycles :
          /\ (cycles[k].pc = "idle" /\ cycles'[k].pc = "loop") =>
                 /\ Len(cycles'[k].todo) <= BATCH_SIZE
                 /\ Batch(k)' =
                        {u \in NotInLedger :
                            Cardinality({c \in NotInLedger : c > u}) < BATCH_SIZE}
                 /\ \A i \in 1..(Len(cycles'[k].todo) - 1) :
                        cycles'[k].todo[i] > cycles'[k].todo[i + 1]
          /\ (cycles[k].pc = "loop" /\ cycles'[k] # cycles[k]) =>
                 /\ cycles[k].todo # <<>> => cycles'[k].handled = cycles[k].handled \cup {Head(cycles[k].todo)}
                 /\ \A u \in 1..Len(mailbox) :
                        u \notin Batch(k) =>
                            /\ runs'[u] = runs[u]
                            /\ (UidStr(u) \in _load_processed_emails') =
                                   (UidStr(u) \in _load_processed_emails)]_vars

\* C35 witness: a cycle on more than 20 candidates has handled the newest of
\* its 20, and an older candidate is still outside the Ledger
C35_Witness ==
    \E k \in Cycles :
        /\ cycles[k].pc = "loop"
        /\ Cardinality(Batch(k)) = BATCH_SIZE
        /\ cycles[k].handled # {}
        /\ \E u \in NotInLedger : \A b \in Batch(k) : u < b

\* C35 witness of a later cycle: the oldest item of a backlog of more than 20
\* has been run once
C35_WitnessLater == Len(mailbox) > BATCH_SIZE /\ runs[1] = 1

\* the open tasks whose address is the counterpart address
ExactMatches(client_email) ==
    {t \in DOMAIN client_tasks :
        /\ client_email # ""
        /\ client_tasks[t].status = "pending"
        /\ client_tasks[t].client_email = client_email}

\* a keyword hit that the counterpart confirms: by its address, or by its name
\* within the name of the task
Confirmed(hit, client_email, client_name) ==
    \/ client_email # "" /\ client_tasks[hit.task].client_email = client_email
    \/ /\ client_name # <<>> /\ hit.client_name # <<>>
       /\ IsSubstring(LowerAll(client_name), LowerAll(hit.client_name))

\* the result as described: the open task of the address when there is one;
\* else a keyword hit that the address or the name confirms, or none when no
\* hit is confirmed
MatcherAsDescribed ==
    LET exact == ExactMatches(matched.client_email)
        confirmed == {i \in 1..Len(matched.hits) :
                         Confirmed(matched.hits[i], matched.client_email,
                                   matched.client_name)}
    IN  IF exact # {} THEN matched.found \in exact
        ELSE IF confirmed = {} THEN matched.found = 0
        ELSE matched.found = 0 \/ \E i \in confirmed : matched.found = matched.hits[i].task

\* C36 as stated: whatever the counterpart address, the matcher returns the
\* open task of that address when there is one, else a keyword hit only when
\* the address or the name confirms it, else none
C36_AsStated == matched.called => MatcherAsDescribed

\* C36: for a counterpart address that is not one of the own addresses, the
\* matcher returns the open task of that address when there is one; only
\* otherwise a keyword hit, and only one that the address or the name
\* confirms; in every other case none
C36_MatcherPriority ==
    (matched.called /\ matched.client_email \notin OwnAddresses) => MatcherAsDescribed

\* C36 witness: no open task has the counterpart address, the first keyword
\* hit is a task of another address, and the second hit, a task without an
\* address, is returned on the name
C36_Witness ==
    /\ matched.called
    /\ matched.client_email \notin OwnAddresses \cup {""}
    /\ ExactMatches(matched.client_email) = {}
    /\ Len(matched.hits) = 2
    /\ client_tasks[matched.hits[1].task].client_email \notin {"", matched.client_email}
    /\ client_tasks[matched.hits[2].task].client_email = ""
    /\ matched.found = matched.hits[2].task
    /\ matched.found # matched.hits[1].task

\* C37: every token whose approve/edit/reject links were mailed has a row in
\* pending_actions: when the insert of an action fails, no link with its token
\* is mailed
C37_LinksOnlyForStoredTokens ==
    /\ \A n \in 1..Len(approval_emails) :
           \A t \in approval_emails[n] : pending_actions[t].status # "none"
    /\ \A t \in Tokens : pending_actions[t].emailed => pending_actions[t].status # "none"

\* C38: an approve click executes only before expires_at: no step runs the
\* executor of a row, or takes the row from pending to approved or failed,
\* after the row's expires_at
C38_NoExecutionAfterExpiry ==
    [][\A t \in Tokens :
          (\/ taskNotes'[t] # taskNotes[t]
           \/ crmNotes'[t] # crmNotes[t]
           \/ /\ pending_actions[t].status = "pending"
              /\ pending_actions'[t].status \in {"approved", "failed"})
          => clock <= pending_actions[t].expires_at]_vars

\* C31: every Task written when a PendingAction of the tenant is approved
\* carries the tenant's user id
C31_TasksCarryTheTenant ==
    \A t \in Tokens :
        \A i \in 1..Len(log[t]) :
            log[t][i].tn > 0 => log[t][i].owner = TenantOfPipeline

\* C32: a pending task whose last reminder was sent before the firing window
\* of its present due instant (it was rescheduled to a later instant after the
\* reminder) is sent a reminder by a tick that runs in that window with the mail
\* provider up
C32_RescheduledTaskIsReminded ==
    [][\A t \in DOMAIN tasks :
          (/\ now' # now /\ mail_up'
           /\ tasks[t].status = "pending"
           /\ tasks[t].due_time # NoDueTime
           /\ InDateWindow(tasks[t], now')
           /\ should_send(time_diff(tasks[t], now'))
           /\ tasks[t].reminder_sent_at # NoStamp
           /\ tasks[t].reminder_sent_at[1] < task_due(tasks[t], now') - UPCOMING_WINDOW)
          => Len(sent'[t]) = Len(sent[t]) + 1]_vars

\* C33: in one tick an error on one task's reminder skips that task only: every
\* task of the tick is evaluated, and every task that meets no error is sent
\* its reminder
C33_TaskErrorSkipsOneTask ==
    tick_run.called =>
        /\ tick_run.evaluated = 1..Len(tick_run.task_faults)
        /\ \A i \in 1..Len(tick_run.task_faults) :
               tick_run.task_faults[i] = "none" => i \in tick_run.reminded

\* C33 witness: the first task has an owner with an unknown timezone, the
\* second task is reminded
C33_Witness ==
    /\ tick_run.called
    /\ Len(tick_run.task_faults) = 2
    /\ tick_run.task_faults[1] = "bad_timezone"
    /\ tick_run.reminded = {2}

\* C34: in one tick a failure on one user's digest does not keep the digest of
\* another eligible user from being sent: every user that meets no error is
\* mailed
C34_DigestErrorSkipsOneUser ==
    tick_run.called =>
        \A u \in 1..Len(tick_run.user_faults) :
            tick_run.user_faults[u] = "none" => u \in tick_run.digested

====
